---- MODULE Spec2Model ----
(***************************************************************************)
(* YaoPets client views as state machines: the feed (PetFeed.tsx), the     *)
(* comments modal (CommentsModal.tsx) and the two versions of the profile  *)
(* page (unnamed/part_002 and EnhancedProfilePage.tsx), the pets page      *)
(* (unnamed/part_003), the donations page (DonationsPage.tsx) and the pet   *)
(* details page (PetDetailsPage.tsx); and the payment routes of the server *)
(* (server/routes/paymentRoutes.js) and the OAuth strategies               *)
(* (unnamed/part_001, with the User model of unnamed/part_000).            *)
(*                                                                         *)
(* One view is mounted per behaviour (variable view).  An async handler is *)
(* split at its await: the step up to the request, and one step per        *)
(* outcome of the request.  Server responses are inputs drawn from small   *)
(* sets.  The variable last is a history variable: the handler step taken  *)
(* last, and what the claims need to remember about it.                    *)
(***************************************************************************)
EXTENDS Integers, Sequences, FiniteSets, TLC

VARIABLES view, user, oauth, pay, details, pets, don, location, toast, last, feed, modal, prof, eprof

vars ==
  <<view, user, oauth, pay, details, pets, don, location, toast, last, feed,
    modal, prof, eprof>>

(***************************************************************************)
(* Bounds of the model.                                                    *)
(***************************************************************************)
\* largest likesCount a server response carries
MaxLikes == 1
\* requests a view issues in one behaviour after its first fetch: like, save,
\* delete, follow, comment, and the refetches that complete
MaxOps == 2
\* a pagination total larger than any page of the model
BigTotal == 5

(***************************************************************************)
(* JavaScript values.                                                      *)
(***************************************************************************)
\* undefined, as an identifier or a flag of a backend record
Undef == "undefined"
\* undefined where a number is expected (likesCount, length of a non-array)
UndefNum == -1000
\* NaN, the result of arithmetic on undefined
NaNNum == -2000
\* useAuth().user when nobody is logged in
NoUser == "null"
\* the logged-in user's id
Viewer == "u1"
\* another user's id
Other == "u2"
\* the route the view is mounted on
CurrentRoute == "current"
\* no toast() call in the step
NoToast == [title |-> "", description |-> ""]

\* a guard that takes everybody for logged in
NobodyLoggedOut(u) == FALSE
\* !user
NotLoggedIn(u) == u = NoUser
\* a || b on identifiers
Or(a, b) == IF a # Undef /\ a # "" THEN a ELSE b
\* a ?? b on numbers
Nullish(a, b) == IF a # UndefNum THEN a ELSE b
\* n || 0
NumOr0(n) == IF n = UndefNum \/ n = NaNNum THEN 0 ELSE n
\* a || false, a ?? false on a backend flag
Truthy(a) == a = "true"
\* a + b
JsAdd(a, b) == IF a = UndefNum \/ a = NaNNum THEN NaNNum ELSE a + b
\* Math.max(0, a)
JsMax0(a) == IF a = UndefNum \/ a = NaNNum THEN NaNNum ELSE IF a < 0 THEN 0 ELSE a

\* the sequence s without its i-th element
RemoveAt(s, i) == SubSeq(s, 1, i - 1) \o SubSeq(s, i + 1, Len(s))
\* a response body: ok tells whether the request succeeded
Body(ok, shape, items, total) ==
  [ok |-> ok, shape |-> shape, items |-> items, total |-> total]
\* a failed request; the .catch of each version supplies the body
Failed == Body(FALSE, "none", <<>>, UndefNum)
\* the responses of the four secondary requests of the profile page
Bundle(po, fo, fg, sv) == [posts |-> po, followers |-> fo, following |-> fg, saved |-> sv]
\* no responses: the step was not a profile fetch
NoResp == Bundle(Failed, Failed, Failed, Failed)
\* the step taken last: the handler step op on entity id.  For a like toggle
\* n and b are the likesCount and isLiked the entity had before the first
\* toggle of a like/unlike pair; for a failed comment like they are those the
\* comment had when the toggle was invoked; for a profile fetch n is the HTTP
\* status of the profile request and resp holds the responses of the others
Step(op, id, n, b) == [op |-> op, id |-> id, n |-> n, b |-> b, resp |-> NoResp]
\* the history of a profile fetch
Fetch(op, message, status, sec) == [Step(op, message, status, FALSE) EXCEPT !.resp = sec]
\* a step the claims need no history of
Did(op, id) == Step(op, id, 0, FALSE)
\* the history of a like toggle started on entity id, whose likesCount is n
\* and isLiked is b: the second toggle of a pair when the step before was
\* the success of the opposite toggle on id, a first toggle otherwise
ToggleStarted(id, n, b) ==
  IF last.op = "like:ok1" /\ last.id = id /\ last.b # b
  THEN Step("like:start2", id, last.n, last.b)
  ELSE Step("like:start1", id, n, b)
\* the history of the success of a like toggle on entity id; newest tells
\* that the request is the one started last
ToggleSucceeded(id, newest) ==
  IF newest /\ last.op = "like:start1" /\ last.id = id
  THEN Step("like:ok1", id, last.n, last.b)
  ELSE IF newest /\ last.op = "like:start2" /\ last.id = id
  THEN Step("like:ok2", id, last.n, last.b)
  ELSE Did("like:ok", id)

\* a backend record's identifier fields: id only, _id only, or both
RawIds(x) ==
  { [id |-> x, _id |-> Undef], [id |-> Undef, _id |-> x], [id |-> x, _id |-> x] }
\* a list response: a bare array, or an object holding the array and a total
ListData(shapes, pages, totals) ==
  { [shape |-> sh, items |-> it, total |-> IF sh = "array" THEN UndefNum ELSE t] :
      sh \in shapes, it \in pages, t \in totals }
\* Array.isArray(data)
IsArray(data) == data.shape = "array"
\* data?.comments, data?.posts, data?.followers: undefined on a bare array
Named(data) == IF data.shape = "object" THEN data.items ELSE <<>>
\* Array.isArray(data) ? data : data?.<name> || []
ArrayOrNamed(data) == IF IsArray(data) THEN data.items ELSE Named(data)

(***************************************************************************)
(* CommentsModal.tsx                                                       *)
(***************************************************************************)
\* the drafts typed: empty, whitespace only, text within whitespace
Drafts == { <<>>, <<" ">>, <<" ", "a", " ">> }

RECURSIVE TrimStart(_)
TrimStart(s) == IF s # <<>> /\ Head(s) = " " THEN TrimStart(Tail(s)) ELSE s
RECURSIVE TrimEnd(_)
TrimEnd(s) ==
  IF s # <<>> /\ s[Len(s)] = " " THEN TrimEnd(SubSeq(s, 1, Len(s) - 1)) ELSE s
\* String.prototype.trim
Trim(s) == TrimEnd(TrimStart(s))

CommentIds == <<"c1", "c2">>
\* backend comments with identifier x: every (isLiked, likesCount) pair, and
\* the records that carry _id only, both identifiers, or no flag and count
RawComments(x) ==
  { [id |-> x, _id |-> Undef, isLiked |-> l, likesCount |-> n] :
      l \in {"true", "false"}, n \in 0..MaxLikes }
  \cup { [id |-> Undef, _id |-> x, isLiked |-> Undef, likesCount |-> UndefNum],
         [id |-> x, _id |-> x, isLiked |-> "true", likesCount |-> UndefNum] }
\* the pages of comments a fetch returns: none, one, or one and an unliked second
CommentPages ==
  {<<>>} \cup { <<a>> : a \in RawComments(CommentIds[1]) }
         \cup { <<a, [id |-> CommentIds[2], _id |-> Undef, isLiked |-> "false",
                      likesCount |-> 0]>> : a \in RawComments(CommentIds[1]) }
\* the totals a list response carries: none, zero, or more than the page holds
Totals == {UndefNum, 0, BigTotal}
CommentsData == ListData({"array", "object"}, CommentPages, Totals)

normalizeComment(c) ==
  [id |-> Or(c._id, c.id), isLiked |-> Truthy(c.isLiked), likesCount |-> NumOr0(c.likesCount)]

normalizeComments(items) == [i \in 1..Len(items) |-> normalizeComment(items[i])]

fetchedCount(data) ==
  IF data.total # UndefNum /\ data.total # 0 THEN data.total ELSE Len(data.items)

ModalInit ==
  [comments |-> <<>>, newComment |-> <<>>, isSubmitting |-> FALSE,
   commentsCount |-> 0, isLoadingComments |-> TRUE, fetches |-> 1,
   likes |-> <<>>, submit |-> <<>>, reported |-> UndefNum, ops |-> 0,
   postId |-> "post1", ignored |-> 0]

\* the modal is open on the screen
InModal == view = "CommentsModal" /\ location = CurrentRoute

fetchCommentsOk(data) ==
  /\ InModal /\ modal.fetches > 0
  /\ modal' = [modal EXCEPT !.comments = normalizeComments(ArrayOrNamed(data)),
                            !.commentsCount = fetchedCount(data),
                            !.isLoadingComments = FALSE,
                            !.fetches = @ - 1]
  /\ toast' = NoToast
  /\ last' = Did("fetchComments:ok", "")
  /\ UNCHANGED <<view, user, oauth, pay, details, pets, don, location, feed, prof, eprof>>

fetchCommentsFail ==
  /\ InModal /\ modal.fetches > 0
  /\ modal' = [modal EXCEPT !.isLoadingComments = FALSE, !.fetches = @ - 1]
  /\ toast' = NoToast
  /\ last' = Did("fetchComments:error", "")
  /\ UNCHANGED <<view, user, oauth, pay, details, pets, don, location, feed, prof, eprof>>

\* the posts the parent opens the modal for
ModalPostIds == {"post1", "post2"}

\* lines 52-82: the postId prop changes; the cleanup of the effect sets
\* ignore for the fetch in flight, the effect runs again and starts a fetch
postIdChanged(p) ==
  /\ InModal /\ p # modal.postId /\ modal.ops < MaxOps
  /\ modal' = [modal EXCEPT !.postId = p,
                            !.ignored = @ + modal.fetches,
                            !.fetches = 1,
                            !.isLoadingComments = TRUE,
                            !.ops = @ + 1]
  /\ toast' = NoToast
  /\ last' = Did("postId", p)
  /\ UNCHANGED <<view, user, oauth, pay, details, pets, don, location, feed, prof, eprof>>

\* lines 57-58, 73-77: a fetch whose ignore is set settles, with either
\* outcome: the try block sets nothing, the catch block is empty, finally runs
fetchCommentsIgnored ==
  /\ InModal /\ modal.ignored > 0
  /\ modal' = [modal EXCEPT !.isLoadingComments = FALSE, !.ignored = @ - 1]
  /\ toast' = NoToast
  /\ last' = Did("fetchComments:ignored", "")
  /\ UNCHANGED <<view, user, oauth, pay, details, pets, don, location, feed, prof, eprof>>

setNewComment(d) ==
  /\ InModal /\ d # modal.newComment
  /\ modal' = [modal EXCEPT !.newComment = d]
  /\ toast' = NoToast
  /\ last' = Did("setNewComment", "")
  /\ UNCHANGED <<view, user, oauth, pay, details, pets, don, location, feed, prof, eprof>>

\* line 114, negated: the submission goes ahead
\* the guard of line 114 without the trim
submitAllowedUntrimmed(draft, u) == draft # <<>> /\ u # NoUser
submitAllowed(draft, u) == Trim(draft) # <<>> /\ u # NoUser

\* a submission that lists the draft at once, under an id of the client's
submittedOptimistically(m) ==
  [m EXCEPT !.isSubmitting = TRUE,
            !.ops = @ + 1,
            !.submit = <<[content |-> Trim(m.newComment), count |-> m.commentsCount]>>,
            !.comments = <<[id |-> "temp", isLiked |-> FALSE, likesCount |-> 0]>> \o @,
            !.commentsCount = @ + 1]
\* lines 115-117: setIsSubmitting(true), then the request with the trimmed
\* draft; count is the commentsCount of the closure
submitted(m) ==
  [m EXCEPT !.isSubmitting = TRUE,
            !.ops = @ + 1,
            !.submit = <<[content |-> Trim(m.newComment), count |-> m.commentsCount]>>]

handleCommentSubmit ==
  /\ InModal /\ ~modal.isSubmitting
  /\ IF submitAllowed(modal.newComment, user) /\ modal.ops < MaxOps
     THEN /\ modal' = submitted(modal)
          /\ last' = Did("handleCommentSubmit", "")
     ELSE /\ ~submitAllowed(modal.newComment, user)
          /\ modal' = modal
          /\ last' = Did("handleCommentSubmit:return", "")
  /\ toast' = NoToast
  /\ UNCHANGED <<view, user, oauth, pay, details, pets, don, location, feed, prof, eprof>>

NewCommentId(k) == "n" \o ToString(k)

\* the created comment put after the comments listed
appendLast(newCommentObj, prev) == Append(prev, newCommentObj)
\* line 129: [newCommentObj, ...prev]
prepend(newCommentObj, prev) == <<newCommentObj>> \o prev

\* a failure that also clears the draft
failedAndCleared(m) == [m EXCEPT !.isSubmitting = FALSE, !.submit = <<>>, !.newComment = <<>>]
\* lines 142-146: the empty catch block, then finally
submitFailed(m) == [m EXCEPT !.isSubmitting = FALSE, !.submit = <<>>]

addCommentOk(raw) ==
  /\ InModal /\ modal.submit # <<>>
  /\ LET newCommentObj == [id |-> Or(raw._id, raw.id), isLiked |-> FALSE, likesCount |-> 0]
     IN modal' = [modal EXCEPT !.comments = prepend(newCommentObj, @),
                               !.commentsCount = @ + 1,
                               !.reported = modal.submit[1].count + 1,
                               !.newComment = <<>>,
                               !.isSubmitting = FALSE,
                               !.submit = <<>>]
  /\ toast' = NoToast
  /\ last' = Did("addComment:ok", Or(raw._id, raw.id))
  /\ UNCHANGED <<view, user, oauth, pay, details, pets, don, location, feed, prof, eprof>>

addCommentFail ==
  /\ InModal /\ modal.submit # <<>>
  /\ modal' = submitFailed(modal)
  /\ toast' = NoToast
  /\ last' = Did("addComment:error", "")
  /\ UNCHANGED <<view, user, oauth, pay, details, pets, don, location, feed, prof, eprof>>

\* lines 152-163: the optimistic flip of the comment's own isLiked
likeOptimistic(cs, commentId) ==
  [i \in 1..Len(cs) |->
     IF cs[i].id = commentId
     THEN [cs[i] EXCEPT !.isLiked = ~cs[i].isLiked,
                        !.likesCount = cs[i].likesCount + (IF cs[i].isLiked THEN -1 ELSE 1)]
     ELSE cs[i]]

\* lines 172-183: the catch block's revert, from the handler's isLiked argument
likeRevert(cs, commentId, isLiked) ==
  [i \in 1..Len(cs) |->
     IF cs[i].id = commentId
     THEN [cs[i] EXCEPT !.isLiked = isLiked,
                        !.likesCount = cs[i].likesCount + (IF isLiked THEN 1 ELSE -1)]
     ELSE cs[i]]

\* the comment list is rendered, and with it each comment's like control
CommentsShown == InModal /\ ~modal.isLoadingComments

handleLikeToggle(i) ==
  /\ CommentsShown /\ i \in 1..Len(modal.comments)
  /\ LET c == modal.comments[i] IN
     IF NotLoggedIn(user)
     THEN /\ modal' = modal
          /\ last' = Did("handleLikeToggle:return", c.id)
     ELSE /\ modal.ops < MaxOps
          /\ modal' = [modal EXCEPT
                 !.ops = @ + 1,
                 !.comments = likeOptimistic(@, c.id),
                 !.likes = Append(@, [id |-> c.id, isLiked |-> c.isLiked,
                                      n |-> c.likesCount])]
          /\ last' = ToggleStarted(c.id, c.likesCount, c.isLiked)
  /\ toast' = NoToast
  /\ UNCHANGED <<view, user, oauth, pay, details, pets, don, location, feed, prof, eprof>>

likeCommentOk(k) ==
  /\ InModal /\ k \in 1..Len(modal.likes)
  /\ modal' = [modal EXCEPT !.likes = RemoveAt(@, k)]
  /\ toast' = NoToast
  /\ last' = ToggleSucceeded(modal.likes[k].id, k = Len(modal.likes))
  /\ UNCHANGED <<view, user, oauth, pay, details, pets, don, location, feed, prof, eprof>>

likeCommentFail(k) ==
  /\ InModal /\ k \in 1..Len(modal.likes)
  /\ modal' = [modal EXCEPT
         !.comments = likeRevert(@, modal.likes[k].id, modal.likes[k].isLiked),
         !.likes = RemoveAt(@, k)]
  /\ toast' = NoToast
  /\ last' = Step("likeComment:error", modal.likes[k].id, modal.likes[k].n,
                  modal.likes[k].isLiked)
  /\ UNCHANGED <<view, user, oauth, pay, details, pets, don, location, feed, prof, eprof>>

ModalNext ==
  \/ modal.fetches > 0 /\ \E data \in CommentsData : fetchCommentsOk(data)
  \/ fetchCommentsFail
  \/ \E p \in ModalPostIds : postIdChanged(p)
  \/ fetchCommentsIgnored
  \/ \E d \in Drafts : setNewComment(d)
  \/ handleCommentSubmit
  \/ \E raw \in RawIds(NewCommentId(modal.ops)) : addCommentOk(raw)
  \/ addCommentFail
  \/ \E i \in 1..Len(modal.comments) : handleLikeToggle(i)
  \/ \E k \in 1..Len(modal.likes) : likeCommentOk(k)
  \/ \E k \in 1..Len(modal.likes) : likeCommentFail(k)

(***************************************************************************)
(* PetFeed.tsx                                                             *)
(***************************************************************************)
PostIds == <<"p1", "p2">>
\* the author of a post: the viewer wrote the first, somebody else the second
PostOwner(x) == IF x = PostIds[1] THEN Viewer ELSE Other
\* backend posts with identifier x: every (isLiked, likesCount) pair, saved or
\* not, and a record that carries _id only and neither flags nor count
RawPosts(x) ==
  { [id |-> x, _id |-> Undef, userId |-> PostOwner(x), isLiked |-> l,
     isSaved |-> sv, likesCount |-> n] :
      l \in {"true", "false"}, sv \in {"true", "false"}, n \in 0..MaxLikes }
  \cup { [id |-> Undef, _id |-> x, userId |-> PostOwner(x), isLiked |-> Undef,
          isSaved |-> Undef, likesCount |-> UndefNum] }
\* the second post of a page: neither liked nor saved, or both
SecondPosts ==
  { [id |-> PostIds[2], _id |-> Undef, userId |-> PostOwner(PostIds[2]),
     isLiked |-> l, isSaved |-> l, likesCount |-> IF l = "true" THEN 1 ELSE 0] :
      l \in {"true", "false"} }
\* the pages of posts a fetch returns: none, the first post, or both
PostPages ==
  {<<>>} \cup { <<a>> : a \in RawPosts(PostIds[1]) }
         \cup { <<a, b>> : a \in RawPosts(PostIds[1]), b \in SecondPosts }
PostsData == ListData({"array", "object"}, PostPages, {UndefNum})

normalizePost(post) ==
  [id |-> Or(post._id, post.id), userId |-> post.userId,
   isLiked |-> Truthy(post.isLiked), isSaved |-> Truthy(post.isSaved),
   likesCount |-> NumOr0(post.likesCount)]

fetchPosts(data) ==
  LET postsArray == ArrayOrNamed(data)
  IN [i \in 1..Len(postsArray) |-> normalizePost(postsArray[i])]

FeedInit ==
  [posts |-> <<>>, isLoading |-> TRUE, error |-> FALSE, fetching |-> TRUE,
   muts |-> <<>>, ops |-> 0]

\* the feed is on the screen
InFeed == view = "PetFeed" /\ location = CurrentRoute
\* the posts are rendered, and with them their controls
PostsShown == InFeed /\ ~feed.isLoading /\ ~feed.error

\* the first fetch, or a refetch within the budget, may complete
MayComplete == feed.isLoading \/ feed.ops < MaxOps
\* the budget after a fetch completed
Fetched == IF feed.isLoading THEN feed.ops ELSE feed.ops + 1

fetchPostsOk(data) ==
  /\ InFeed /\ feed.fetching /\ MayComplete
  /\ feed' = [feed EXCEPT !.posts = fetchPosts(data), !.isLoading = FALSE,
                          !.error = FALSE, !.fetching = FALSE, !.ops = Fetched]
  /\ toast' = NoToast
  /\ last' = Did("fetchPosts:ok", "")
  /\ UNCHANGED <<view, user, oauth, pay, details, pets, don, location, modal, prof, eprof>>

fetchPostsFail ==
  /\ InFeed /\ feed.fetching /\ MayComplete
  /\ feed' = [feed EXCEPT !.isLoading = FALSE, !.error = TRUE,
                          !.fetching = FALSE, !.ops = Fetched]
  /\ toast' = NoToast
  /\ last' = Did("fetchPosts:error", "")
  /\ UNCHANGED <<view, user, oauth, pay, details, pets, don, location, modal, prof, eprof>>

\* line 273: the Retry button of the error screen
retry ==
  /\ InFeed /\ feed.error /\ ~feed.fetching
  /\ feed' = [feed EXCEPT !.fetching = TRUE]
  /\ toast' = NoToast
  /\ last' = Did("retry", "")
  /\ UNCHANGED <<view, user, oauth, pay, details, pets, don, location, modal, prof, eprof>>

\* lines 123-133
likeOnMutate(oldPosts, postId, isLiked) ==
  [i \in 1..Len(oldPosts) |->
     IF oldPosts[i].id = postId
     THEN [oldPosts[i] EXCEPT !.isLiked = ~isLiked,
                              !.likesCount = @ + (IF isLiked THEN -1 ELSE 1)]
     ELSE oldPosts[i]]

\* lines 163-169
saveOnMutate(oldPosts, postId, isSaved) ==
  [i \in 1..Len(oldPosts) |->
     IF oldPosts[i].id = postId
     THEN [oldPosts[i] EXCEPT !.isSaved = ~isSaved]
     ELSE oldPosts[i]]

\* lines 194-196
deleteOnMutate(oldPosts, postId) ==
  SelectSeq(oldPosts, LAMBDA post : post.id # postId)

\* lines 137, 173, 200: onError puts the snapshot of onMutate back
onErrorPosts(current, prevPosts) == prevPosts

\* the mutation a useMutation observer reports on is the one mutate() built last
IsLoadingFor(kind, postId) ==
  \E k \in 1..Len(feed.muts) :
     /\ feed.muts[k].kind = kind /\ feed.muts[k].latest
     /\ feed.muts[k].postId = postId

\* lines 389, 410: the disabled attribute of the like and the save button
Disabled(kind, postId) == IsLoadingFor(kind, postId)

\* mutate(): the observer leaves the mutation it watched and watches the new one
Mutate(kind, postId, arg) ==
  Append([k \in 1..Len(feed.muts) |->
            IF feed.muts[k].kind = kind
            THEN [feed.muts[k] EXCEPT !.latest = FALSE] ELSE feed.muts[k]],
         [kind |-> kind, postId |-> postId, arg |-> arg,
          prevPosts |-> feed.posts, latest |-> TRUE])

LoginRequired(what) == [title |-> "Login required", description |-> what]
ErrorToast(what) == [title |-> "Error", description |-> what]

handleToggleLike(i) ==
  /\ PostsShown /\ i \in 1..Len(feed.posts)
  /\ LET post == feed.posts[i] IN
     /\ ~Disabled("like", post.id)
     /\ IF NotLoggedIn(user)
        THEN /\ toast' = LoginRequired("Login to like posts")
             /\ location' = "/auth/login"
             /\ feed' = feed
             /\ last' = Did("handleToggleLike:login", post.id)
        ELSE /\ feed.ops < MaxOps
             /\ feed' = [feed EXCEPT
                    !.fetching = FALSE,
                    !.ops = @ + 1,
                    !.posts = likeOnMutate(@, post.id, post.isLiked),
                    !.muts = Mutate("like", post.id, post.isLiked)]
             /\ toast' = NoToast
             /\ location' = location
             /\ last' = ToggleStarted(post.id, post.likesCount, post.isLiked)
  /\ UNCHANGED <<view, user, oauth, pay, details, pets, don, modal, prof, eprof>>

handleToggleSave(i) ==
  /\ PostsShown /\ i \in 1..Len(feed.posts)
  /\ LET post == feed.posts[i] IN
     /\ ~Disabled("save", post.id)
     /\ IF NotLoggedIn(user)
        THEN /\ toast' = LoginRequired("Login to save posts")
             /\ location' = "/auth/login"
             /\ feed' = feed
             /\ last' = Did("handleToggleSave:login", post.id)
        ELSE /\ feed.ops < MaxOps
             /\ feed' = [feed EXCEPT
                    !.fetching = FALSE,
                    !.ops = @ + 1,
                    !.posts = saveOnMutate(@, post.id, post.isSaved),
                    !.muts = Mutate("save", post.id, post.isSaved)]
             /\ toast' = NoToast
             /\ location' = location
             /\ last' = Did("handleToggleSave", post.id)
  /\ UNCHANGED <<view, user, oauth, pay, details, pets, don, modal, prof, eprof>>

\* lines 312, 351: the owner's menu, its Delete entry and the confirmation
confirmDelete(i) ==
  /\ PostsShown /\ i \in 1..Len(feed.posts)
  /\ user # NoUser /\ user = feed.posts[i].userId
  /\ feed.ops < MaxOps
  /\ feed' = [feed EXCEPT
         !.fetching = FALSE,
         !.ops = @ + 1,
         !.posts = deleteOnMutate(@, feed.posts[i].id),
         !.muts = Mutate("delete", feed.posts[i].id, FALSE)]
  /\ toast' = NoToast
  /\ last' = Did("confirmDelete", feed.posts[i].id)
  /\ UNCHANGED <<view, user, oauth, pay, details, pets, don, location, modal, prof, eprof>>

\* the request of mutation k succeeds: onSuccess (delete only), onSettled
mutationOk(k) ==
  /\ InFeed /\ k \in 1..Len(feed.muts)
  /\ LET m == feed.muts[k] IN
     /\ feed' = [feed EXCEPT !.muts = RemoveAt(@, k), !.fetching = TRUE]
     /\ toast' = IF m.kind = "delete"
                 THEN [title |-> "Post deleted",
                       description |-> "Your post was deleted successfully."]
                 ELSE NoToast
     /\ last' = IF m.kind = "like"
                THEN ToggleSucceeded(m.postId, k = Len(feed.muts))
                ELSE Did(m.kind \o ":ok", m.postId)
  /\ UNCHANGED <<view, user, oauth, pay, details, pets, don, location, modal, prof, eprof>>

\* the request of mutation k fails: onError, onSettled
mutationFail(k) ==
  /\ InFeed /\ k \in 1..Len(feed.muts)
  /\ LET m == feed.muts[k] IN
     /\ feed' = [feed EXCEPT !.posts = onErrorPosts(@, m.prevPosts),
                             !.muts = RemoveAt(@, k), !.fetching = TRUE]
     /\ toast' = ErrorToast(CASE m.kind = "like" -> "Failed to update like. Please try again."
                              [] m.kind = "save" -> "Failed to update saved state. Please try again."
                              [] OTHER -> "Failed to delete post. Please try again.")
     /\ last' = Did(m.kind \o ":error", m.postId)
  /\ UNCHANGED <<view, user, oauth, pay, details, pets, don, location, modal, prof, eprof>>

FeedNext ==
  \/ InFeed /\ feed.fetching /\ \E data \in PostsData : fetchPostsOk(data)
  \/ fetchPostsFail
  \/ retry
  \/ \E i \in 1..Len(feed.posts) : handleToggleLike(i)
  \/ \E i \in 1..Len(feed.posts) : handleToggleSave(i)
  \/ \E i \in 1..Len(feed.posts) : confirmDelete(i)
  \/ \E k \in 1..Len(feed.muts) : mutationOk(k)
  \/ \E k \in 1..Len(feed.muts) : mutationFail(k)

(***************************************************************************)
(* The profile page.  Both versions (unnamed/part_002 and                  *)
(* EnhancedProfilePage.tsx) issue the same five requests; what they do     *)
(* with the responses differs.                                             *)
(***************************************************************************)
\* no :id in the route
NoId == ""
\* a third user, who follows or is followed
Third == "u3"
\* profileData before the first successful fetch
NoProfile == [id |-> "null", _id |-> "null"]
\* line 191 of part_002, line 159 of EnhancedProfilePage.tsx
NotFound == 404

\* line 96 (part_002), line 100 (EnhancedProfilePage.tsx)
isOwnProfile(id, u) == id = NoId \/ (u # NoUser /\ id = u)
\* line 120 of both versions: undefined when nobody is logged in on /profile
userIdOf(id, u) == IF isOwnProfile(id, u) THEN (IF u = NoUser THEN Undef ELSE u) ELSE id

Follower(x) == [id |-> x, _id |-> Undef]
\* the pages of followers: none, the viewer (by id or by _id), a third user and
\* the viewer
FollowerPages ==
  { <<>>, <<Follower(Viewer)>>, <<[id |-> Undef, _id |-> Viewer]>>,
    <<Follower(Third), Follower(Viewer)>> }
FollowingPages == { <<>>, <<Follower(Third)>> }
\* a post as the profile responses carry it
ProfilePost(r, l, sv, n) ==
  [id |-> r.id, _id |-> r._id, isLiked |-> l, isSaved |-> sv, likesCount |-> n]
\* the first post of a page: every (isLiked, likesCount) pair, saved or not,
\* and a record with _id only and neither flags nor count
FirstPosts ==
  { ProfilePost(Follower(PostIds[1]), l, sv, n) :
      l \in {"true", "false"}, sv \in {"true", "false"}, n \in 0..MaxLikes }
  \cup { ProfilePost([id |-> Undef, _id |-> PostIds[1]], Undef, Undef, UndefNum) }
ProfilePostPages ==
  {<<>>} \cup { <<a>> : a \in FirstPosts }
         \cup { <<a, ProfilePost(Follower(PostIds[2]), l, l, IF l = "true" THEN 1 ELSE 0)>> :
                  a \in FirstPosts, l \in {"true", "false"} }

\* the bodies a list endpoint answers with, for a page of records
Bodies(page) ==
  { Body(TRUE, "array", page, UndefNum) }
  \cup { Body(TRUE, "object", page, t) : t \in Totals }
\* the page every response carries unless it is the one varied
BasePosts == <<ProfilePost(Follower(PostIds[1]), "false", "false", 0)>>
BaseFollowers == <<Follower(Third)>>
BaseFollowing == <<Follower(Third)>>
\* the responses of the four secondary requests: every subset of them failing,
\* and every body of each with the others answering the base page in the
\* shape sh
Secondary(sh) ==
  LET base(page) == Body(TRUE, sh, page, UndefNum)
  IN { Bundle(po, fo, fg, sv) :
         po \in {Failed, base(BasePosts)}, fo \in {Failed, base(BaseFollowers)},
         fg \in {Failed, base(BaseFollowing)}, sv \in {Failed, base(BasePosts)} }
     \cup { Bundle(po, base(BaseFollowers), base(BaseFollowing), base(BasePosts)) :
              po \in UNION { Bodies(pg) : pg \in ProfilePostPages } }
     \cup { Bundle(base(BasePosts), fo, base(BaseFollowing), base(BasePosts)) :
              fo \in UNION { Bodies(pg) : pg \in FollowerPages } }
     \cup { Bundle(base(BasePosts), base(BaseFollowers), fg, base(BasePosts)) :
              fg \in UNION { Bodies(pg) : pg \in FollowingPages } }
     \cup { Bundle(base(BasePosts), base(BaseFollowers), base(BaseFollowing), sv) :
              sv \in UNION { Bodies(pg) : pg \in {<<>>, BasePosts} } }
\* the responses of the secondary requests of a run of fetchData that
\* follows a change of the route: all answering the base page, or all failing
Revisit(sh) ==
  LET base(page) == Body(TRUE, sh, page, UndefNum)
  IN { Bundle(base(BasePosts), base(BaseFollowers), base(BaseFollowing), base(BasePosts)),
       Bundle(Failed, Failed, Failed, Failed) }
\* the outcomes of api.user.getProfile of such a run: the profile, or 404
RevisitOutcomes(x) ==
  { [ok |-> TRUE, status |-> 200, data |-> [id |-> x, _id |-> x]],
    [ok |-> FALSE, status |-> NotFound, data |-> NoProfile] }
\* the outcomes of api.user.getProfile: the profile, or an HTTP error
ProfileOutcomes(x) ==
  { [ok |-> TRUE, status |-> 200, data |-> r] : r \in RawIds(x) }
  \cup { [ok |-> FALSE, status |-> st, data |-> NoProfile] : st \in {NotFound, 500} }

\* what the catch block of fetchData receives: the Error fetchData threw
\* itself, which has no response
Thrown(message) == [message |-> message, status |-> UndefNum]

\* lines 190-204 (part_002), 158-172 (EnhancedProfilePage.tsx)
catchToast(error) ==
  IF error.status = NotFound
  THEN [title |-> "User not found",
        description |-> "The requested user profile does not exist"]
  ELSE [title |-> "Error", description |-> "Failed to load profile data"]
catchLocation(error, loc) == IF error.status = NotFound THEN "/" ELSE loc

(***************************************************************************)
(* unnamed/part_002                                                        *)
(***************************************************************************)
\* .catch(() => ({ data: { posts: [] } })) and its siblings, lines 126-137
orEmptyObject(body) == IF body.ok THEN body ELSE Body(FALSE, "object", <<>>, UndefNum)
\* data?.posts || [], data?.followers || [], data?.following || []
named(body) == IF body.shape = "object" THEN body.items ELSE <<>>
\* lines 147-169: id: p.id || p._id
withId(items) == [i \in 1..Len(items) |-> [items[i] EXCEPT !.id = Or(items[i].id, items[i]._id)]]
\* lines 172-179: pagination?.total ?? <list>?.length ?? 0
countOf(body) ==
  IF body.shape = "object" THEN Nullish(body.total, Len(body.items)) ELSE 0
\* lines 185-187
followsViewer(items, u) ==
  \E i \in 1..Len(items) : Or(items[i].id, items[i]._id) = u

ProfInit(id, u) ==
  [id |-> id, profileData |-> NoProfile, posts |-> <<>>, followers |-> <<>>,
   following |-> <<>>, savedPosts |-> <<>>, followerCount |-> 0,
   followingCount |-> 0, isFollowing |-> FALSE, loading |-> TRUE,
   isFollowPending |-> FALSE,
   fetching |-> ~(isOwnProfile(id, u) /\ u = NoUser),
   follow |-> <<>>, ops |-> 0, stale |-> <<>>]

\* the page is on the screen
InProf == view = "ProfilePage" /\ location = CurrentRoute

\* lines 117-208: the state after the run of fetchData that was started
\* under the route id key has settled with the outcomes pr and sec
settled(p, key, pr, sec) ==
  LET own == isOwnProfile(key, user)
      postsRes == orEmptyObject(sec.posts)
      followersRes == orEmptyObject(sec.followers)
      followingRes == orEmptyObject(sec.following)
      savedRes == IF own THEN orEmptyObject(sec.saved)
                  ELSE Body(TRUE, "object", <<>>, UndefNum)
  IN IF ~pr.ok
     THEN [p EXCEPT !.loading = FALSE]
     ELSE [p EXCEPT
             !.profileData = pr.data,
             !.posts = withId(named(postsRes)),
             !.followers = withId(named(followersRes)),
             !.following = withId(named(followingRes)),
             !.savedPosts = withId(named(savedRes)),
             !.followerCount = countOf(followersRes),
             !.followingCount = countOf(followingRes),
             !.isFollowing = IF ~own /\ user # NoUser
                             THEN followsViewer(named(followersRes), user)
                             ELSE @,
             !.loading = FALSE]

\* the run of fetchData of the last run of the effect settles
fetchData(pr, sec) ==
  /\ InProf /\ prof.fetching
  /\ pr \in ProfileOutcomes(userIdOf(prof.id, user))
  /\ prof' = [settled(prof, prof.id, pr, sec) EXCEPT !.fetching = FALSE]
  /\ IF ~pr.ok
     THEN /\ toast' = catchToast(Thrown("User not found"))
          /\ location' = catchLocation(Thrown("User not found"), location)
          /\ last' = Fetch("fetchData:catch", "User not found", pr.status, sec)
     ELSE /\ toast' = NoToast
          /\ location' = location
          /\ last' = Fetch("fetchData:ok", "", pr.status, sec)
  /\ UNCHANGED <<view, user, oauth, pay, details, pets, don, feed, modal, eprof>>

\* the ids of the route /profile/:id
RouteIds == {NoId, Viewer, Other}

\* lines 113-116, 209-212: the id of the route changes, the component stays
\* mounted and the effect runs again; the run in flight is not cancelled
idChanged(id) ==
  /\ InProf /\ id # prof.id /\ prof.ops < MaxOps
  /\ LET starts == ~(isOwnProfile(id, user) /\ user = NoUser) IN
       prof' = [prof EXCEPT !.id = id,
                            !.stale = IF prof.fetching THEN Append(@, prof.id) ELSE @,
                            !.fetching = starts,
                            !.loading = IF starts THEN TRUE ELSE @,
                            !.ops = @ + 1]
  /\ toast' = NoToast
  /\ last' = Did("id", id)
  /\ UNCHANGED <<view, user, oauth, pay, details, pets, don, location, feed, modal, eprof>>

\* a run of fetchData started under an earlier route id settles
fetchDataSuperseded(k, pr, sec) ==
  /\ InProf /\ k \in 1..Len(prof.stale)
  /\ pr \in ProfileOutcomes(userIdOf(prof.stale[k], user))
  /\ prof' = [settled(prof, prof.stale[k], pr, sec) EXCEPT !.stale = RemoveAt(@, k)]
  /\ IF ~pr.ok
     THEN /\ toast' = catchToast(Thrown("User not found"))
          /\ location' = catchLocation(Thrown("User not found"), location)
     ELSE /\ toast' = NoToast
          /\ location' = location
  /\ last' = Fetch("fetchData:superseded", prof.stale[k], pr.status, sec)
  /\ UNCHANGED <<view, user, oauth, pay, details, pets, don, feed, modal, eprof>>

\* line 324, negated: the toggle goes ahead
followAllowed(u, profileData, pending) ==
  u # NoUser /\ profileData # NoProfile /\ ~pending

\* the profile is rendered; ProfileHeader offers the follow control on
\* somebody else's profile
FollowShown(pg) == ~pg.loading /\ pg.profileData # NoProfile
                   /\ ~isOwnProfile(pg.id, user)

\* lines 323-329, 345: up to the await
handleFollowToggle ==
  /\ InProf /\ FollowShown(prof)
  /\ IF followAllowed(user, prof.profileData, prof.isFollowPending)
     THEN /\ prof.ops < MaxOps
          /\ prof' = [prof EXCEPT
                 !.isFollowPending = TRUE,
                 !.ops = @ + 1,
                 !.follow = Append(@, [kind |-> IF prof.isFollowing THEN "unfollow" ELSE "follow",
                                       targetId |-> Or(prof.profileData.id, prof.profileData._id)])]
          /\ last' = Did("handleFollowToggle", IF prof.isFollowing THEN "unfollow" ELSE "follow")
     ELSE /\ prof' = prof
          /\ last' = Did("handleFollowToggle:return", "")
  /\ toast' = NoToast
  /\ UNCHANGED <<view, user, oauth, pay, details, pets, don, location, feed, modal, eprof>>

\* lines 335-337, 293: prev.filter((f) => String(f.id) !== String(user.id))
withoutViewer(followers, u) == SelectSeq(followers, LAMBDA f : f.id # u)
\* lines 351-358, 302
withViewer(followers, u) == Append(followers, [id |-> u, _id |-> Undef])
\* a decrement without the floor at 0
decrement(count) == JsAdd(count, -1)
\* lines 331-334, 289-292
afterUnfollow(count) == JsMax0(JsAdd(count, -1))
\* lines 347-350, 298-301
afterFollow(count) == JsAdd(count, 1)

\* lines 330-343 and 346-364, then finally
followOk ==
  /\ InProf /\ prof.follow # <<>>
  /\ LET kind == prof.follow[1].kind IN
     /\ prof' = [prof EXCEPT
            !.isFollowing = (kind = "follow"),
            !.followerCount = IF kind = "follow" THEN afterFollow(@) ELSE afterUnfollow(@),
            !.followers = IF kind = "follow" THEN withViewer(@, user)
                          ELSE withoutViewer(@, user),
            !.isFollowPending = FALSE,
            !.follow = Tail(@)]
     /\ toast' = IF kind = "follow"
                 THEN [title |-> "Following", description |-> "You are now following"]
                 ELSE [title |-> "Unfollowed", description |-> "You are no longer following"]
     /\ last' = Did(kind \o ":ok", "")
  /\ UNCHANGED <<view, user, oauth, pay, details, pets, don, location, feed, modal, eprof>>

\* lines 366-374: catch, then finally
followFail ==
  /\ InProf /\ prof.follow # <<>>
  /\ prof' = [prof EXCEPT !.isFollowPending = FALSE, !.follow = Tail(@)]
  /\ toast' = ErrorToast("Could not update follow status")
  /\ last' = Did(prof.follow[1].kind \o ":error", "")
  /\ UNCHANGED <<view, user, oauth, pay, details, pets, don, location, feed, modal, eprof>>

ProfNext ==
  \/ InProf /\ prof.fetching
     /\ \/ prof.ops = 0 /\ \E pr \in ProfileOutcomes(userIdOf(prof.id, user)),
                                 sec \in Secondary("object") : fetchData(pr, sec)
        \/ prof.ops > 0 /\ \E pr \in RevisitOutcomes(userIdOf(prof.id, user)),
                                 sec \in Revisit("object") : fetchData(pr, sec)
  \/ \E id \in RouteIds : idChanged(id)
  \/ \E k \in 1..Len(prof.stale) :
        \E pr \in RevisitOutcomes(userIdOf(prof.stale[k], user)),
           sec \in Revisit("object") : fetchDataSuperseded(k, pr, sec)
  \/ handleFollowToggle
  \/ followOk
  \/ followFail

(***************************************************************************)
(* EnhancedProfilePage.tsx                                                 *)
(***************************************************************************)
\* a boolean as a record's flag
Flag(b) == IF b THEN "true" ELSE "false"
\* .catch(() => ({ data: [] })), lines 126-129
orEmptyArray(body) == IF body.ok THEN body ELSE Body(FALSE, "array", <<>>, UndefNum)
\* what setFollowers, setFollowing and setSavedPosts store: the body as it came
Stored(body) == [shape |-> body.shape, items |-> body.items, total |-> body.total]
\* data.length, lines 148-149
lengthOf(body) == IF body.shape = "array" THEN Len(body.items) ELSE UndefNum
\* data.map, data.some, prev.filter and [...prev] throw a TypeError on an object
Throws(body) == body.shape # "array"
\* line 155: String(f.id) === String(user.id)
someIsViewer(items, u) == \E i \in 1..Len(items) : items[i].id = u
\* no post: the closure of a follow request holds none
NoPost == ProfilePost(Follower(""), Undef, Undef, UndefNum)

EProfInit(id) ==
  [id |-> id, profileData |-> NoProfile, posts |-> <<>>,
   followers |-> Stored(Body(TRUE, "array", <<>>, UndefNum)),
   following |-> Stored(Body(TRUE, "array", <<>>, UndefNum)),
   savedPosts |-> Stored(Body(TRUE, "array", <<>>, UndefNum)),
   followerCount |-> 0, followingCount |-> 0, isFollowing |-> FALSE,
   loading |-> TRUE, fetching |-> TRUE, crashed |-> FALSE,
   reqs |-> <<>>, ops |-> 0]

\* the page is on the screen
InEProf == view = "EnhancedProfilePage" /\ location = CurrentRoute /\ ~eprof.crashed

\* lines 117-176
enhancedFetchData(pr, sec) ==
  /\ InEProf /\ eprof.fetching
  /\ LET own == isOwnProfile(eprof.id, user)
         userId == userIdOf(eprof.id, user)
         postsRes == orEmptyArray(sec.posts)
         followersRes == orEmptyArray(sec.followers)
         followingRes == orEmptyArray(sec.following)
         savedRes == IF own THEN orEmptyArray(sec.saved)
                     ELSE Body(TRUE, "array", <<>>, UndefNum)
         done == [eprof EXCEPT !.loading = FALSE, !.fetching = FALSE]
         caught(message, state) ==
           /\ eprof' = state
           /\ toast' = catchToast(Thrown(message))
           /\ location' = catchLocation(Thrown(message), location)
           /\ last' = Fetch("fetchData:catch", message,
                            IF userId = Undef THEN 0 ELSE pr.status, sec)
         lists == [done EXCEPT
                     !.profileData = pr.data,
                     !.posts = postsRes.items,
                     !.followers = Stored(followersRes),
                     !.following = Stored(followingRes),
                     !.savedPosts = Stored(savedRes),
                     !.followerCount = lengthOf(followersRes),
                     !.followingCount = lengthOf(followingRes)]
     IN /\ pr \in ProfileOutcomes(IF userId = Undef THEN Other ELSE userId)
        /\ CASE userId = Undef -> caught("No user ID provided", done)
             [] userId # Undef /\ ~pr.ok -> caught("User not found", done)
             [] userId # Undef /\ pr.ok /\ Throws(postsRes) ->
                  caught("TypeError", [done EXCEPT !.profileData = pr.data])
             [] userId # Undef /\ pr.ok /\ ~Throws(postsRes)
                  /\ ~own /\ user # NoUser /\ Throws(followersRes) ->
                  caught("TypeError", lists)
             [] OTHER ->
                  /\ eprof' = [lists EXCEPT
                         !.isFollowing = IF ~own /\ user # NoUser
                                         THEN someIsViewer(followersRes.items, user)
                                         ELSE @]
                  /\ toast' = NoToast
                  /\ location' = location
                  /\ last' = Fetch("fetchData:ok", "", pr.status, sec)
  /\ UNCHANGED <<view, user, oauth, pay, details, pets, don, feed, modal, prof>>

\* lines 384-399, 521: the posts of somebody else's profile carry the controls
ControlsShown == InEProf /\ FollowShown(eprof)

\* line 284, negated
enhancedFollowAllowed(u, profileData) == u # NoUser /\ profileData # NoProfile

\* a request of the page, with what the handler's closure holds
Request(kind, postId, flag, post) ==
  [kind |-> kind, postId |-> postId, flag |-> flag, post |-> post]
\* the budget allows one more request
MayRequest == eprof.ops < MaxOps
Requested(r) == [eprof EXCEPT !.reqs = Append(@, r), !.ops = @ + 1]

\* lines 283-287, 296: up to the await
enhancedHandleFollowToggle ==
  /\ ControlsShown
  /\ IF enhancedFollowAllowed(user, eprof.profileData)
     THEN /\ MayRequest
          /\ eprof' = Requested(Request("follow", eprof.id, ~eprof.isFollowing, NoPost))
          /\ last' = Did("handleFollowToggle", IF eprof.isFollowing THEN "unfollow" ELSE "follow")
     ELSE /\ eprof' = eprof
          /\ last' = Did("handleFollowToggle:return", "")
  /\ toast' = NoToast
  /\ UNCHANGED <<view, user, oauth, pay, details, pets, don, location, feed, modal, prof>>

\* lines 317-330: up to the await
toggleLike(i) ==
  /\ ControlsShown /\ i \in 1..Len(eprof.posts)
  /\ LET postId == eprof.posts[i].id
         \* posts.find((p) => p.id === postId)
         post == eprof.posts[CHOOSE j \in 1..Len(eprof.posts) :
                               /\ eprof.posts[j].id = postId
                               /\ \A h \in 1..(j - 1) : eprof.posts[h].id # postId]
     IN IF NotLoggedIn(user)
        THEN /\ toast' = LoginRequired("Login to like posts")
             /\ location' = "/auth/login"
             /\ eprof' = eprof
             /\ last' = Did("toggleLike:login", postId)
        ELSE /\ MayRequest
             /\ eprof' = Requested(Request("like", postId, ~Truthy(post.isLiked), post))
             /\ toast' = NoToast
             /\ location' = location
             /\ last' = ToggleStarted(postId, post.likesCount, Truthy(post.isLiked))
  /\ UNCHANGED <<view, user, oauth, pay, details, pets, don, feed, modal, prof>>

\* lines 345-359: up to the await
toggleSave(i) ==
  /\ ControlsShown /\ i \in 1..Len(eprof.posts)
  /\ LET postId == eprof.posts[i].id
         post == eprof.posts[CHOOSE j \in 1..Len(eprof.posts) :
                               /\ eprof.posts[j].id = postId
                               /\ \A h \in 1..(j - 1) : eprof.posts[h].id # postId]
     IN IF NotLoggedIn(user)
        THEN /\ toast' = LoginRequired("Login to save posts")
             /\ location' = "/auth/login"
             /\ eprof' = eprof
             /\ last' = Did("toggleSave:login", postId)
        ELSE /\ MayRequest
             /\ eprof' = Requested(Request("save", postId, ~Truthy(post.isSaved), post))
             /\ toast' = NoToast
             /\ location' = location
             /\ last' = Did("toggleSave", postId)
  /\ UNCHANGED <<view, user, oauth, pay, details, pets, don, feed, modal, prof>>

\* line 335
likedCount(n, newIsLiked) == IF newIsLiked THEN JsAdd(n, 1) ELSE JsMax0(JsAdd(n, -1))
\* lines 332-338
setLiked(posts, postId, newIsLiked) ==
  [i \in 1..Len(posts) |->
     IF posts[i].id = postId
     THEN [posts[i] EXCEPT !.isLiked = Flag(newIsLiked),
                           !.likesCount = likedCount(@, newIsLiked)]
     ELSE posts[i]]
\* line 362
setSaved(posts, postId, newIsSaved) ==
  [i \in 1..Len(posts) |->
     IF posts[i].id = postId THEN [posts[i] EXCEPT !.isSaved = Flag(newIsSaved)]
     ELSE posts[i]]
\* lines 357, 360
savedAfter(saved, post, postId, newIsSaved) ==
  [saved EXCEPT !.items = IF newIsSaved THEN Append(@, post)
                          ELSE SelectSeq(@, LAMBDA q : q.id # postId)]

\* the request k succeeds: the rest of the try block
requestOk(k) ==
  /\ InEProf /\ k \in 1..Len(eprof.reqs)
  /\ LET r == eprof.reqs[k]
         rest == [eprof EXCEPT !.reqs = RemoveAt(@, k)]
     IN CASE r.kind = "like" ->
               /\ eprof' = [rest EXCEPT !.posts = setLiked(@, r.postId, r.flag)]
               /\ toast' = NoToast
               /\ last' = ToggleSucceeded(r.postId, k = Len(eprof.reqs))
          [] r.kind = "save" ->
               /\ eprof' = [rest EXCEPT
                      !.savedPosts = savedAfter(@, r.post, r.postId, r.flag),
                      !.posts = setSaved(@, r.postId, r.flag)]
               /\ toast' = NoToast
               /\ last' = Did("save:ok", r.postId)
          [] OTHER ->
               /\ eprof' = [rest EXCEPT
                      !.isFollowing = r.flag,
                      !.followerCount = IF r.flag THEN afterFollow(@) ELSE afterUnfollow(@),
                      !.followers = IF Throws(@) THEN @
                                    ELSE [@ EXCEPT !.items =
                                            IF r.flag THEN withViewer(@, user)
                                            ELSE withoutViewer(@, user)],
                      !.crashed = Throws(eprof.followers)]
               /\ toast' = IF r.flag
                           THEN [title |-> "Following", description |-> "You are now following"]
                           ELSE [title |-> "Unfollowed", description |-> "You are no longer following"]
               /\ last' = Did(IF r.flag THEN "follow:ok" ELSE "unfollow:ok", "")
  /\ UNCHANGED <<view, user, oauth, pay, details, pets, don, location, feed, modal, prof>>

\* the request k fails: the catch block
requestFail(k) ==
  /\ InEProf /\ k \in 1..Len(eprof.reqs)
  /\ LET r == eprof.reqs[k] IN
     /\ eprof' = [eprof EXCEPT !.reqs = RemoveAt(@, k)]
     /\ toast' = ErrorToast(CASE r.kind = "like" -> "Could not update like"
                              [] r.kind = "save" -> "Could not update saved post"
                              [] OTHER -> "Could not update follow status")
     /\ last' = Did(IF r.kind = "follow" THEN (IF r.flag THEN "follow:error" ELSE "unfollow:error")
                    ELSE r.kind \o ":error", r.postId)
  /\ UNCHANGED <<view, user, oauth, pay, details, pets, don, location, feed, modal, prof>>

EProfNext ==
  \/ InEProf /\ eprof.fetching
     /\ \E pr \in ProfileOutcomes(Viewer) \cup ProfileOutcomes(Other), sec \in Secondary("array") :
           enhancedFetchData(pr, sec)
  \/ enhancedHandleFollowToggle
  \/ \E i \in 1..Len(eprof.posts) : toggleLike(i)
  \/ \E i \in 1..Len(eprof.posts) : toggleSave(i)
  \/ \E k \in 1..Len(eprof.reqs) : requestOk(k)
  \/ \E k \in 1..Len(eprof.reqs) : requestFail(k)

(***************************************************************************)
(* unnamed/part_003: PetsPage                                              *)
(***************************************************************************)
\* the pets a response lists: none, one under each identifier form, two
PetPages ==
  { <<>> } \cup { <<p>> : p \in RawIds("p1") }
    \cup { <<[id |-> Undef, _id |-> "p1"], [id |-> "p2", _id |-> Undef]>> }
PetsData == ListData({"array", "object"}, PetPages, {UndefNum})

\* lines 129-131
PetsInit == [petsData |-> <<>>, isLoading |-> TRUE, error |-> FALSE,
             fetching |-> TRUE]

InPets == view = "PetsPage" /\ location = CurrentRoute

\* lines 144-145: the array is stored as the backend sent it
fetchPets(data) == ArrayOrNamed(data)

fetchPetsOk(data) ==
  /\ InPets /\ pets.fetching
  /\ pets' = [pets EXCEPT !.petsData = fetchPets(data), !.isLoading = FALSE,
                          !.fetching = FALSE]
  /\ toast' = NoToast
  /\ last' = Step("fetchPets:ok", "", 0, IsArray(data))
  /\ UNCHANGED <<view, user, oauth, pay, details, don, location, feed, modal, prof, eprof>>

\* lines 146-150
fetchPetsFail ==
  /\ InPets /\ pets.fetching
  /\ pets' = [pets EXCEPT !.petsData = <<>>, !.error = TRUE,
                          !.isLoading = FALSE, !.fetching = FALSE]
  /\ toast' = NoToast
  /\ last' = Did("fetchPets:error", "")
  /\ UNCHANGED <<view, user, oauth, pay, details, don, location, feed, modal, prof, eprof>>

PetsNext ==
  \/ InPets /\ pets.fetching /\ \E data \in PetsData : fetchPetsOk(data)
  \/ fetchPetsFail

(***************************************************************************)
(* DonationsPage.tsx                                                       *)
(***************************************************************************)
\* a backend donation x of donor d, under each identifier form
RawDonations(x, d) == { [id |-> r.id, _id |-> r._id, donorId |-> d] : r \in RawIds(x) }
DonationPages ==
  { <<>> } \cup { <<r>> : r \in RawDonations("d1", Viewer) \cup RawDonations("d1", Other) }
    \cup { <<[id |-> Undef, _id |-> "d1", donorId |-> Other],
             [id |-> "d2", _id |-> Undef, donorId |-> Viewer]>> }
DonationsData == ListData({"array", "object"}, DonationPages, {UndefNum})

\* lines 94-108, 183-195: the item the page keeps of a backend donation
normalizeDonation(item) == [id |-> Or(item._id, item.id), donorId |-> item.donorId]
\* lines 89-109
fetchDonations(data) ==
  LET arr == ArrayOrNamed(data) IN [i \in 1..Len(arr) |-> normalizeDonation(arr[i])]

\* lines 59-75: filled stands for an item form with every field set
DonInit == [donationItems |-> <<>>, isLoading |-> TRUE, fetching |-> TRUE,
            itemFormOpen |-> FALSE, filled |-> FALSE, creating |-> 0, ops |-> 0]

InDon == view = "DonationsPage" /\ location = CurrentRoute

fetchDonationsOk(data) ==
  /\ InDon /\ don.fetching
  /\ don' = [don EXCEPT !.donationItems = fetchDonations(data),
                        !.isLoading = FALSE, !.fetching = FALSE]
  /\ toast' = NoToast
  /\ last' = Step("fetchDonations:ok", "", 0, IsArray(data))
  /\ UNCHANGED <<view, user, oauth, pay, details, pets, location, feed, modal, prof, eprof>>

\* lines 110-118
fetchDonationsFail ==
  /\ InDon /\ don.fetching
  /\ don' = [don EXCEPT !.donationItems = <<>>, !.isLoading = FALSE,
                        !.fetching = FALSE]
  /\ toast' = [title |-> "Error loading donations", description |-> "message"]
  /\ last' = Did("fetchDonations:error", "")
  /\ UNCHANGED <<view, user, oauth, pay, details, pets, location, feed, modal, prof, eprof>>

\* lines 123-134: the form opens with every field empty
handleAddItem ==
  /\ InDon /\ ~don.itemFormOpen
  /\ don' = [don EXCEPT !.itemFormOpen = TRUE, !.filled = FALSE]
  /\ toast' = NoToast
  /\ last' = Did("handleAddItem", "")
  /\ UNCHANGED <<view, user, oauth, pay, details, pets, location, feed, modal, prof, eprof>>

\* the inputs of the dialog: the last missing field is typed
setItemForm ==
  /\ InDon /\ don.itemFormOpen /\ ~don.filled
  /\ don' = [don EXCEPT !.filled = TRUE]
  /\ toast' = NoToast
  /\ last' = Did("setItemForm", "")
  /\ UNCHANGED <<view, user, oauth, pay, details, pets, location, feed, modal, prof, eprof>>

\* lines 154-181: the part of handleRegisterItem before its await
handleRegisterItem ==
  /\ InDon /\ don.itemFormOpen
  /\ IF NotLoggedIn(user)
     THEN /\ don' = don
          /\ toast' = ErrorToast("You must be logged in to donate an item.")
          /\ last' = Did("handleRegisterItem:login", "")
     ELSE IF ~don.filled
     THEN /\ don' = don
          /\ toast' = [title |-> "Fill all fields",
                       description |-> "Please fill all item fields."]
          /\ last' = Did("handleRegisterItem:fields", "")
     ELSE /\ don.ops < MaxOps
          /\ don' = [don EXCEPT !.creating = @ + 1, !.ops = @ + 1]
          /\ toast' = NoToast
          /\ last' = Did("createDonation:start", "")
  /\ UNCHANGED <<view, user, oauth, pay, details, pets, location, feed, modal, prof, eprof>>

NewDonationId(k) == "m" \o ToString(k)

\* lines 182-204
createDonationOk(data) ==
  /\ InDon /\ don.creating > 0
  /\ don' = [don EXCEPT !.donationItems = <<normalizeDonation(data)>> \o @,
                        !.itemFormOpen = FALSE, !.creating = @ - 1]
  /\ toast' = [title |-> "Item registered successfully!",
               description |-> "Your item is now available for donation."]
  /\ last' = Did("createDonation:ok", Or(data._id, data.id))
  /\ UNCHANGED <<view, user, oauth, pay, details, pets, location, feed, modal, prof, eprof>>

\* lines 205-211
createDonationFail ==
  /\ InDon /\ don.creating > 0
  /\ don' = [don EXCEPT !.creating = @ - 1]
  /\ toast' = [title |-> "Error registering item", description |-> "message"]
  /\ last' = Did("createDonation:error", "")
  /\ UNCHANGED <<view, user, oauth, pay, details, pets, location, feed, modal, prof, eprof>>

\* lines 215-237
handleItemInterest(i) ==
  /\ InDon /\ ~don.isLoading /\ i \in 1..Len(don.donationItems)
  /\ LET item == don.donationItems[i] IN
       IF NotLoggedIn(user)
       THEN /\ toast' = ErrorToast("You must be logged in to express interest.")
            /\ location' = location
            /\ last' = Did("handleItemInterest:login", item.id)
       ELSE IF user = item.donorId
       THEN /\ toast' = [title |-> "Notice",
                         description |-> "You cannot show interest in your own item."]
            /\ location' = location
            /\ last' = Did("handleItemInterest:own", item.id)
       ELSE /\ toast' = [title |-> "Interest sent!", description |-> "conversation"]
            /\ location' = "/chat/0"
            /\ last' = Did("handleItemInterest", item.id)
  /\ UNCHANGED <<view, user, oauth, pay, details, pets, don, feed, modal, prof, eprof>>

DonNext ==
  \/ InDon /\ don.fetching /\ \E data \in DonationsData : fetchDonationsOk(data)
  \/ fetchDonationsFail
  \/ handleAddItem
  \/ setItemForm
  \/ handleRegisterItem
  \/ InDon /\ don.creating > 0 /\
       \E data \in RawDonations(NewDonationId(don.ops), Viewer) : createDonationOk(data)
  \/ createDonationFail
  \/ \E i \in 1..Len(don.donationItems) : handleItemInterest(i)


(***************************************************************************)
(* PetDetailsPage.tsx                                                      *)
(***************************************************************************)
\* the ids of the route /pet-details/:id
PetIds == {"p1", "p2"}
\* no pet: the state null
NoPet == [id |-> Undef, status |-> Undef, ownerId |-> Undef]
\* data.status: the values the page knows (Disponivel for the accented
\* word of line 61), one it does not know, none
Statuses == {"adoption", "Disponivel", "lost", "found", "adopted", Undef}
\* data.user?._id || data.ownerId
Owners == {Undef, Viewer, Other}
\* the pets api.pet.getPetById answers with for the id x
RawPets(x) ==
  { [id |-> r.id, _id |-> r._id, status |-> st, ownerId |-> o] :
      r \in RawIds(x), st \in Statuses, o \in Owners }

\* a status kept as the backend sent it
rawStatus(status) == status
\* lines 61-64
normalizeStatus(status) ==
  IF status = "adoption" \/ status = "Disponivel" THEN "Available"
  ELSE IF status = "lost" THEN "Lost"
  ELSE IF status = "found" THEN "Found"
  ELSE "Available"

\* lines 53-73
petDetails(data) ==
  [id |-> Or(data._id, data.id), status |-> normalizeStatus(data.status),
   ownerId |-> data.ownerId]

\* lines 31-32; fetches counts the runs of fetchPetDetails in flight whose
\* isCancelled is unset, cancelled those whose isCancelled is set; window is
\* what window.open was called with last
DetailsInit(id) ==
  [id |-> id, pet |-> NoPet, isLoading |-> TRUE, fetches |-> 1,
   cancelled |-> 0, window |-> "", ops |-> 0]

InDetails == view = "PetDetailsPage" /\ location = CurrentRoute

\* lines 48-75, 81-82
fetchPetDetailsOk(data) ==
  /\ InDetails /\ details.fetches > 0
  /\ details' = [details EXCEPT !.pet = petDetails(data), !.isLoading = FALSE,
                                !.fetches = @ - 1]
  /\ toast' = NoToast
  /\ last' = Did("fetchPetDetails:ok", Or(data._id, data.id))
  /\ UNCHANGED <<view, user, oauth, pay, pets, don, location, feed, modal, prof, eprof>>

\* lines 50, 76-82: the request fails, or answers without data
fetchPetDetailsFail ==
  /\ InDetails /\ details.fetches > 0
  /\ details' = [details EXCEPT !.pet = NoPet, !.isLoading = FALSE,
                                !.fetches = @ - 1]
  /\ toast' = NoToast
  /\ last' = Did("fetchPetDetails:error", "")
  /\ UNCHANGED <<view, user, oauth, pay, pets, don, location, feed, modal, prof, eprof>>

\* lines 74, 77, 82: a run whose isCancelled is set settles, with either outcome
fetchPetDetailsCancelled ==
  /\ InDetails /\ details.cancelled > 0
  /\ details' = [details EXCEPT !.cancelled = @ - 1]
  /\ toast' = NoToast
  /\ last' = Did("fetchPetDetails:cancelled", "")
  /\ UNCHANGED <<view, user, oauth, pay, pets, don, location, feed, modal, prof, eprof>>

\* lines 38-92: params.id changes; the cleanup sets isCancelled for the run
\* in flight, the effect runs again
petIdChanged(p) ==
  /\ InDetails /\ p # details.id /\ details.ops < MaxOps
  /\ details' = [details EXCEPT !.id = p,
                                !.cancelled = @ + details.fetches,
                                !.fetches = 1,
                                !.isLoading = TRUE,
                                !.ops = @ + 1]
  /\ toast' = NoToast
  /\ last' = Did("petId", p)
  /\ UNCHANGED <<view, user, oauth, pay, pets, don, location, feed, modal, prof, eprof>>

\* lines 119, 122: user && (pet.ownerId === user.id || pet.ownerId === user._id)
isOwner(u, pet) == u # NoUser /\ pet.ownerId = u
\* lines 117-154: the button getActionButton renders
ActionShown ==
  /\ InDetails /\ ~details.isLoading /\ details.pet # NoPet
  /\ ~(details.pet.status = "Available" /\ isOwner(user, details.pet))

\* lines 99-115
handleMainAction ==
  /\ ActionShown
  /\ LET pet == details.pet IN
       IF pet.status = "Available"
       THEN IF pet.ownerId = Undef
            THEN /\ last' = Did("handleMainAction:alert", "Owner not found")
                 /\ UNCHANGED <<location, details>>
            ELSE IF isOwner(user, pet)
            THEN /\ last' = Did("handleMainAction:alert", "You are the owner")
                 /\ UNCHANGED <<location, details>>
            ELSE /\ location' = "/chat/" \o pet.ownerId
                 /\ last' = Did("handleMainAction:chat", pet.ownerId)
                 /\ UNCHANGED details
       ELSE /\ details' = [details EXCEPT !.window = "maps"]
            /\ last' = Did("handleMainAction:map", pet.id)
            /\ UNCHANGED location
  /\ toast' = NoToast
  /\ UNCHANGED <<view, user, oauth, pay, pets, don, feed, modal, prof, eprof>>

DetailsNext ==
  \/ InDetails /\ details.fetches > 0
       /\ \E data \in RawPets(details.id) : fetchPetDetailsOk(data)
  \/ fetchPetDetailsFail
  \/ fetchPetDetailsCancelled
  \/ \E p \in PetIds : petIdChanged(p)
  \/ handleMainAction


(***************************************************************************)
(* server/routes/paymentRoutes.js                                          *)
(***************************************************************************)
Endpoints == {"create-payment-intent", "create-checkout-session"}
\* a JavaScript value of req.body.amount: its typeof and, for a number, its
\* value
Amount(type, value) == [type |-> type, value |-> value]
\* req.body.amount: missing, a numeric string, NaN, numbers around 0 and 100
Amounts ==
  { Amount("undefined", 0), Amount("string", 500), Amount("number", NaNNum) }
  \cup { Amount("number", v) : v \in {-100, 0, 1, 99, 100, 101, 5000} }

\* !amount
Falsy(amount) ==
  \/ amount.type = "undefined"
  \/ amount.type = "number" /\ amount.value \in {0, NaNNum}
\* a check that leaves out the lower limit
invalidWithoutMinimum(amount) == Falsy(amount) \/ amount.type # "number"
\* lines 15, 36: !amount || typeof amount !== 'number' || amount < 100
invalidAmount(amount) ==
  Falsy(amount) \/ amount.type # "number" \/ amount.value < 100

\* res.status(status).json({ [key]: value })
Response(status, key, value) == [status |-> status, key |-> key, value |-> value]
\* the field of the success response: lines 25, 58
SuccessKey(endpoint) ==
  IF endpoint = "create-payment-intent" THEN "clientSecret" ELSE "url"
\* lines 28, 61
FailureMessage(endpoint) ==
  IF endpoint = "create-payment-intent" THEN "Failed to create payment intent"
  ELSE "Failed to create checkout session"

\* no request yet
NoRequest ==
  [endpoint |-> "", amount |-> Amount("undefined", 0), phase |-> "idle",
   calls |-> 0, responses |-> <<>>]
PayInit == [req |-> NoRequest, ops |-> 0]

InPay == view = "paymentRoutes"

\* lines 12-24, 33-56: the handler up to its await
handlePayment(endpoint, amount) ==
  /\ InPay /\ pay.req.phase # "await" /\ pay.ops < MaxOps
  /\ IF invalidAmount(amount)
     THEN pay' = [req |-> [endpoint |-> endpoint, amount |-> amount, phase |-> "done",
                           calls |-> 0,
                           responses |-> <<Response(400, "error", "Invalid amount")>>],
                  ops |-> pay.ops + 1]
     ELSE pay' = [req |-> [endpoint |-> endpoint, amount |-> amount, phase |-> "await",
                           calls |-> 1, responses |-> <<>>],
                  ops |-> pay.ops + 1]
  /\ last' = Did(endpoint, "")
  /\ UNCHANGED <<view, user, oauth, details, pets, don, location, toast, feed, modal, prof, eprof>>

\* lines 25, 58: the provider call resolved
providerOk ==
  /\ InPay /\ pay.req.phase = "await"
  /\ pay' = [pay EXCEPT !.req.phase = "done",
                        !.req.responses =
                           Append(@, Response(200, SuccessKey(pay.req.endpoint), "value"))]
  /\ last' = Did(pay.req.endpoint \o ":ok", "")
  /\ UNCHANGED <<view, user, oauth, details, pets, don, location, toast, feed, modal, prof, eprof>>

\* lines 26-29, 59-62: the provider call rejected
providerFail ==
  /\ InPay /\ pay.req.phase = "await"
  /\ pay' = [pay EXCEPT !.req.phase = "done",
                        !.req.responses =
                           Append(@, Response(500, "error", FailureMessage(pay.req.endpoint)))]
  /\ last' = Did(pay.req.endpoint \o ":error", "")
  /\ UNCHANGED <<view, user, oauth, details, pets, don, location, toast, feed, modal, prof, eprof>>

PayNext ==
  \/ InPay /\ \E endpoint \in Endpoints, amount \in Amounts : handlePayment(endpoint, amount)
  \/ providerOk
  \/ providerFail


(***************************************************************************)
(* unnamed/part_001: the passport strategies; unnamed/part_000: User       *)
(***************************************************************************)
Strategies == {"google", "facebook", "linkedin"}
\* an email address: local part and domain
Email(name, domain) == <<name, domain>>
\* the profiles the providers hand over: two Google accounts whose addresses
\* share the local part, a Facebook and a LinkedIn account with the address of
\* the first, and a Facebook account that hands over no address
NoEmails == <<>>
Profiles ==
  { [strategy |-> "google", id |-> "g1", email |-> Email("a", "x")],
    [strategy |-> "google", id |-> "g2", email |-> Email("a", "y")],
    [strategy |-> "facebook", id |-> "f1", email |-> Email("a", "x")],
    [strategy |-> "facebook", id |-> "f2", email |-> NoEmails],
    [strategy |-> "linkedin", id |-> "l1", email |-> Email("a", "x")] }
NoProfileYet == [strategy |-> "", id |-> "", email |-> Email("", "")]

\* part_000 lines 16-18: googleId, facebookId, linkedinId default to null
NoIds == [st \in Strategies |-> ""]
\* a User document
UserDoc(email, username, ids, provider) ==
  [email |-> email, username |-> username, ids |-> ids, provider |-> provider]
NoDoc == UserDoc(Email("", ""), "", NoIds, "")
\* the users registered before: none, or a local account
RegisteredUsers == { <<>>, <<UserDoc(Email("a", "x"), "a", NoIds, "local")>> }

\* email.split("@")[0]
localPart(email) == email[1]

\* User.findOne(filter): the position of the first match, 0 for null
findOneByProvider(users, strategy, id) ==
  IF \E i \in 1..Len(users) : users[i].ids[strategy] = id
  THEN CHOOSE i \in 1..Len(users) :
         /\ users[i].ids[strategy] = id
         /\ \A j \in 1..(i - 1) : users[j].ids[strategy] # id
  ELSE 0
findOneByEmail(users, email) ==
  IF \E i \in 1..Len(users) : users[i].email = email
  THEN CHOOSE i \in 1..Len(users) :
         /\ users[i].email = email
         /\ \A j \in 1..(i - 1) : users[j].email # email
  ELSE 0

\* a collection without unique indexes
noIndex(users, doc) == FALSE
\* part_000 lines 6, 8: the unique indexes on email and username reject doc
duplicateKey(users, doc) ==
  \E i \in 1..Len(users) :
     users[i].email = doc.email \/ users[i].username = doc.username

\* the two requests the server handles at the same time
Callbacks == {"first", "second"}
\* a verify callback: pc is the await it stands at, found the position of the
\* document it holds, passed what it handed to done
Idle == [profile |-> NoProfileYet, pc |-> "idle", found |-> 0,
         passed |-> [doc |-> NoDoc, token |-> 0]]
OAuthInit(users) == [users |-> users, calls |-> [c \in Callbacks |-> Idle]]

InOAuth == view = "passport"

\* auth.js lines 31-60, part_001 lines 17-19: the callback route runs the
\* strategy, which issues findOne({ <provider>Id: profile.id })
verify(c, profile) ==
  /\ InOAuth /\ oauth.calls[c].pc = "idle"
  /\ oauth' = [oauth EXCEPT !.calls[c].profile = profile,
                            !.calls[c].pc = "findByProvider"]
  /\ last' = Did("verify", c)
  /\ UNCHANGED <<view, user, pay, details, pets, don, location, toast, feed, modal, prof, eprof>>

\* generateToken, lines 9-11: the token is signed over the user's id
generateToken(position) == position
\* lines 39-41: user.token = token; done(null, user)
done(doc, position) == [doc |-> doc, token |-> generateToken(position)]

\* lines 19-21, 39-41: the first findOne resolves
findByProvider(c) ==
  /\ InOAuth /\ oauth.calls[c].pc = "findByProvider"
  /\ LET call == oauth.calls[c]
         i == findOneByProvider(oauth.users, call.profile.strategy, call.profile.id)
     IN IF i # 0
        THEN oauth' = [oauth EXCEPT !.calls[c].pc = "done",
                                    !.calls[c].found = i,
                                    !.calls[c].passed = done(oauth.users[i], i)]
        ELSE oauth' = [oauth EXCEPT !.calls[c].pc = "findByEmail"]
  /\ last' = Did("findByProvider", c)
  /\ UNCHANGED <<view, user, pay, details, pets, don, location, toast, feed, modal, prof, eprof>>

\* lines 21-26, 28, 42-44: reading profile.emails[0].value of a profile
\* without addresses throws and the catch block calls done(err, null);
\* otherwise the second findOne resolves: a document found gets the provider
\* id and save is issued, else create is issued
findByEmail(c) ==
  /\ InOAuth /\ oauth.calls[c].pc = "findByEmail"
  /\ IF oauth.calls[c].profile.email = NoEmails
     THEN /\ oauth' = [oauth EXCEPT !.calls[c].pc = "error"]
          /\ last' = Did("findByEmail:error", c)
     ELSE /\ LET i == findOneByEmail(oauth.users, oauth.calls[c].profile.email)
             IN oauth' = [oauth EXCEPT
                            !.calls[c].found = i,
                            !.calls[c].pc = IF i # 0 THEN "save" ELSE "create"]
          /\ last' = Did("findByEmail", c)
  /\ UNCHANGED <<view, user, pay, details, pets, don, location, toast, feed, modal, prof, eprof>>

\* lines 23-26: the fields the callback modified on the document
linked(doc, profile) ==
  [doc EXCEPT !.ids[profile.strategy] = profile.id, !.provider = profile.strategy]

\* lines 26, 39-41: save writes the modified fields, then done
save(c) ==
  /\ InOAuth /\ oauth.calls[c].pc = "save"
  /\ LET call == oauth.calls[c]
         doc == linked(oauth.users[call.found], call.profile)
     IN oauth' = [oauth EXCEPT !.users[call.found] = doc,
                               !.calls[c].pc = "done",
                               !.calls[c].passed = done(doc, call.found)]
  /\ last' = Did("save", c)
  /\ UNCHANGED <<view, user, pay, details, pets, don, location, toast, feed, modal, prof, eprof>>

\* lines 28-36: the document User.create inserts
created(profile) ==
  linked(UserDoc(profile.email, localPart(profile.email), NoIds, ""), profile)

\* lines 28-44: create resolves, or rejects with a duplicate key error and
\* the catch block calls done(err, null)
create(c) ==
  /\ InOAuth /\ oauth.calls[c].pc = "create"
  /\ LET doc == created(oauth.calls[c].profile) IN
       IF duplicateKey(oauth.users, doc)
       THEN /\ oauth' = [oauth EXCEPT !.calls[c].pc = "error"]
            /\ last' = Did("create:error", c)
       ELSE /\ oauth' = [oauth EXCEPT !.users = Append(@, doc),
                                      !.calls[c].pc = "done",
                                      !.calls[c].found = Len(oauth.users) + 1,
                                      !.calls[c].passed = done(doc, Len(oauth.users) + 1)]
            /\ last' = Did("create", c)
  /\ UNCHANGED <<view, user, pay, details, pets, don, location, toast, feed, modal, prof, eprof>>

OAuthNext ==
  \/ InOAuth /\ \E c \in Callbacks, profile \in Profiles : verify(c, profile)
  \/ \E c \in Callbacks : findByProvider(c)
  \/ \E c \in Callbacks : findByEmail(c)
  \/ \E c \in Callbacks : save(c)
  \/ \E c \in Callbacks : create(c)


Init ==
  /\ view \in {"CommentsModal", "PetFeed", "ProfilePage", "EnhancedProfilePage",
              "PetsPage", "DonationsPage", "PetDetailsPage", "paymentRoutes",
              "passport"}
  /\ user \in {NoUser, Viewer}
  /\ location = CurrentRoute
  /\ toast = NoToast
  /\ last = Did("mount", "")
  /\ feed = FeedInit
  /\ modal = ModalInit
  /\ pets = PetsInit
  /\ pay = PayInit
  /\ \E users \in RegisteredUsers :
        /\ view # "passport" => users = <<>>
        /\ oauth = OAuthInit(users)
  /\ details = DetailsInit("p1")
  /\ don = DonInit
  /\ \E id \in {NoId, Viewer, Other} :
        /\ view \notin {"ProfilePage", "EnhancedProfilePage"} => id = NoId
        /\ prof = ProfInit(id, user)
        /\ eprof = EProfInit(id)

Next == ModalNext \/ FeedNext \/ ProfNext \/ EProfNext \/ PetsNext \/ DonNext
          \/ DetailsNext \/ PayNext \/ OAuthNext

Spec == Init /\ [][Next]_vars
(***************************************************************************)
(* Properties.                                                             *)
(***************************************************************************)
\* the list whose entries carry the like control of the mounted view
LikeList ==
  CASE view = "PetFeed" -> feed.posts
    [] view = "CommentsModal" -> modal.comments
    [] view = "EnhancedProfilePage" -> eprof.posts
    [] OTHER -> <<>>
\* a profile page is mounted
OnProfile == view \in {"ProfilePage", "EnhancedProfilePage"}
\* the step taken last was a profile fetch whose profile request succeeded
ProfileLoaded == OnProfile /\ last.op \in {"fetchData:ok", "fetchData:catch"} /\ last.n = 200

\* C1: a like toggle followed by the opposite toggle on the same post or
\* comment, both requests succeeding and nothing in between, leaves the
\* displayed likesCount equal to its value before the first toggle, in the
\* feed, the comments modal and the profile page, for every starting pair of
\* a flag and a number
C1_RoundTrip ==
  (last.op = "like:ok2" /\ last.n >= 0) =>
    \A i \in 1..Len(LikeList) :
      LikeList[i].id = last.id => LikeList[i].likesCount = last.n

\* C2: when the request of a feed like, save or delete mutation fails, the
\* posts list after the error handler is the list at the moment the mutation
\* was initiated; when the request of a comment like fails, the comment's
\* isLiked and likesCount are those it had when the toggle was invoked
C2_Rollback ==
  [][ /\ \A k \in 1..Len(feed.muts) :
           ( /\ view = "PetFeed"
             /\ last'.op \in {"like:error", "save:error", "delete:error"}
             /\ feed'.muts = RemoveAt(feed.muts, k) )
           => feed'.posts = feed.muts[k].prevPosts
      /\ (view = "CommentsModal" /\ last'.op = "likeComment:error") =>
           \A i \in 1..Len(modal'.comments) :
             modal'.comments[i].id = last'.id =>
               /\ modal'.comments[i].isLiked = last'.b
               /\ modal'.comments[i].likesCount = last'.n ]_vars

\* C3: a toggle invoked on a post while an earlier toggle of the same kind on
\* that post is in flight is blocked or has no effect: in the feed no second
\* mutation of a kind is started on a post that has one in flight, and on the
\* profile page a like that succeeds leaves the post one step from the state
\* it had when the toggle was invoked
C3_OneNetChange ==
  [][ /\ (view = "PetFeed" /\ Len(feed'.muts) = Len(feed.muts) + 1) =>
           \A k \in 1..Len(feed.muts) :
             ~ ( /\ feed.muts[k].kind = feed'.muts[Len(feed'.muts)].kind
                 /\ feed.muts[k].postId = feed'.muts[Len(feed'.muts)].postId )
      /\ \A k \in 1..Len(eprof.reqs) :
           ( /\ view = "EnhancedProfilePage"
             /\ last'.op \in {"like:ok", "like:ok1", "like:ok2"}
             /\ eprof.reqs[k].kind = "like"
             /\ eprof'.reqs = RemoveAt(eprof.reqs, k) )
           => \A i \in 1..Len(eprof'.posts) :
                eprof'.posts[i].id = eprof.reqs[k].postId =>
                  /\ eprof'.posts[i].isLiked = Flag(eprof.reqs[k].flag)
                  /\ eprof'.posts[i].likesCount =
                       likedCount(eprof.reqs[k].post.likesCount, eprof.reqs[k].flag) ]_vars

\* C4: when the profile request fails with status 404 the 'User not found'
\* notification is shown and the location is '/'; when it fails with another
\* status the location is unchanged and the notification is the generic
\* 'Failed to load profile data'
C4_NotFoundHandling ==
  (OnProfile /\ last.op = "fetchData:catch") =>
    /\ last.n = NotFound => (toast.title = "User not found" /\ location = "/")
    /\ last.n = 500 => ( /\ toast.description = "Failed to load profile data"
                         /\ location = CurrentRoute )

\* C5: when the followers (following) response carries pagination.total = N,
\* the stored followerCount (followingCount) is N, whatever the page length
C5_TotalIsCount ==
  ProfileLoaded =>
    LET page == IF view = "ProfilePage" THEN prof ELSE eprof IN
    /\ last.resp.followers.total # UndefNum => page.followerCount = last.resp.followers.total
    /\ last.resp.following.total # UndefNum => page.followingCount = last.resp.following.total

\* C6: a comment submission invoked while the draft is empty or whitespace
\* issues no addComment request and leaves the comments list, commentsCount,
\* the draft and isSubmitting unchanged
C6_BlankSubmitNoop ==
  [][ ( /\ view = "CommentsModal"
        /\ last'.op \in {"handleCommentSubmit", "handleCommentSubmit:return"}
        /\ Trim(modal.newComment) = <<>> )
      => /\ modal'.submit = modal.submit
         /\ modal'.comments = modal.comments
         /\ modal'.commentsCount = modal.commentsCount
         /\ modal'.newComment = modal.newComment
         /\ modal'.isSubmitting = modal.isSubmitting ]_vars

\* a whitespace draft was submitted by a logged-in user with comments listed
C6_BlankSubmitted ==
  /\ view = "CommentsModal" /\ user = Viewer
  /\ last.op = "handleCommentSubmit:return"
  /\ modal.newComment = <<" ">>
  /\ modal.comments # <<>>

\* the steps in which a like or save toggle of a post is invoked
PostToggleOps ==
  { "like:start1", "like:start2", "handleToggleLike:login", "handleToggleSave",
    "handleToggleSave:login", "toggleLike:login", "toggleSave", "toggleSave:login" }

\* C7: with no user authenticated, a like or save toggle on a post, in the
\* feed or on the profile page, issues no request, leaves the posts
\* unchanged, shows 'Login required' and sets the location to /auth/login
C7_LoginRequired ==
  [][ ( /\ view \in {"PetFeed", "EnhancedProfilePage"}
        /\ user = NoUser
        /\ last'.op \in PostToggleOps )
      => /\ feed'.muts = feed.muts /\ feed'.posts = feed.posts
         /\ eprof'.reqs = eprof.reqs /\ eprof'.posts = eprof.posts
         /\ eprof'.savedPosts = eprof.savedPosts
         /\ toast'.title = "Login required"
         /\ location' = "/auth/login" ]_vars

\* a logged-out visitor pressed like on a post of the feed
C7_LoggedOutLike ==
  /\ view = "PetFeed" /\ user = NoUser
  /\ last.op = "handleToggleLike:login"
  /\ feed.posts # <<>>
  /\ location = "/auth/login"

\* what part_002 stores for a response of a secondary request
StoredRecords(body) == IF body.ok THEN withId(body.items) ELSE <<>>
\* what EnhancedProfilePage.tsx is to hold for a response
ReturnedRecords(body) == IF body.ok THEN body.items ELSE <<>>

\* C8: when the profile request succeeds, whichever secondary requests fail,
\* fetchData shows no notification and does not navigate, sets profileData,
\* stores an empty collection for every failed request and the returned
\* records for every request that succeeded
C8_SecondaryIsolation ==
  ProfileLoaded =>
    /\ toast = NoToast /\ location = CurrentRoute
    /\ view = "ProfilePage" =>
         /\ prof.profileData # NoProfile
         /\ prof.posts = StoredRecords(last.resp.posts)
         /\ prof.followers = StoredRecords(last.resp.followers)
         /\ prof.following = StoredRecords(last.resp.following)
         /\ isOwnProfile(prof.id, user) => prof.savedPosts = StoredRecords(last.resp.saved)
    /\ view = "EnhancedProfilePage" =>
         /\ eprof.profileData # NoProfile
         /\ eprof.posts = ReturnedRecords(last.resp.posts)
         /\ eprof.followers.items = ReturnedRecords(last.resp.followers)
         /\ eprof.following.items = ReturnedRecords(last.resp.following)
         /\ isOwnProfile(eprof.id, user) =>
              eprof.savedPosts.items = ReturnedRecords(last.resp.saved)

\* the follow machine of part_002, step by step: a toggle that goes ahead
\* enters pending and leaves isFollowing; the success of a follow request
\* ends in following with followerCount + 1 and the viewer appended; the
\* success of an unfollow request ends in not-following with followerCount
\* - 1, not below 0, and the viewer removed; every settlement leaves pending
FollowMachine ==
  /\ last'.op = "handleFollowToggle" =>
       /\ ~prof.isFollowPending /\ prof'.isFollowPending
       /\ prof'.isFollowing = prof.isFollowing
       /\ last'.id = (IF prof.isFollowing THEN "unfollow" ELSE "follow")
  /\ last'.op = "follow:ok" =>
       /\ prof'.isFollowing
       /\ prof'.followerCount = prof.followerCount + 1
       /\ prof'.followers = Append(prof.followers, [id |-> user, _id |-> Undef])
  /\ last'.op = "unfollow:ok" =>
       /\ ~prof'.isFollowing
       /\ prof'.followerCount = (IF prof.followerCount > 0 THEN prof.followerCount - 1 ELSE 0)
       /\ \A i \in 1..Len(prof'.followers) : prof'.followers[i].id # user
  /\ last'.op \in {"follow:ok", "unfollow:ok", "follow:error", "unfollow:error"} =>
       prof.isFollowPending /\ ~prof'.isFollowPending

C10_FailureRestores ==
  (OnProfile /\ last.op \in {"follow:error", "unfollow:error"}) =>
    /\ (IF view = "ProfilePage" THEN prof.isFollowing ELSE eprof.isFollowing)
         = (last.op = "unfollow:error")
    /\ toast.title = "Error"
    /\ view = "ProfilePage" => ~prof.isFollowPending

\* C11: when addComment succeeds the created comment is at index 0 of the
\* comments list, the comments listed before follow it in their order,
\* commentsCount is one more and the draft is empty
C11_Prepended ==
  [][ (view = "CommentsModal" /\ last'.op = "addComment:ok") =>
        /\ Len(modal'.comments) = Len(modal.comments) + 1
        /\ modal'.comments[1].id = last'.id
        /\ \A i \in 1..Len(modal.comments) : modal'.comments[i + 1] = modal.comments[i]
        /\ modal'.commentsCount = modal.commentsCount + 1
        /\ modal'.newComment = <<>> ]_vars

\* a comment was created while another comment was listed
C11_CreatedAboveOthers ==
  /\ view = "CommentsModal" /\ last.op = "addComment:ok"
  /\ Len(modal.comments) >= 2
  /\ modal.comments[1].id = last.id
  /\ modal.commentsCount >= 1

\* C12: neither the start of a submission nor the failure of addComment
\* changes the draft, the comments list or commentsCount, and after the
\* failure isSubmitting is false and the draft can be submitted again
C12_FailureKeepsDraft ==
  [][ /\ (view = "CommentsModal" /\ last'.op \in {"handleCommentSubmit", "addComment:error"}) =>
           /\ modal'.newComment = modal.newComment
           /\ modal'.comments = modal.comments
           /\ modal'.commentsCount = modal.commentsCount
      /\ (view = "CommentsModal" /\ last'.op = "addComment:error") =>
           /\ modal.isSubmitting /\ ~modal'.isSubmitting
           /\ modal'.submit = <<>>
           /\ (last.op = "handleCommentSubmit" => submitAllowed(modal'.newComment, user)) ]_vars

\* addComment failed with a draft typed and comments listed
C12_FailedWithDraft ==
  /\ view = "CommentsModal" /\ last.op = "addComment:error"
  /\ Trim(modal.newComment) # <<>>
  /\ modal.comments # <<>>
  /\ ~modal.isSubmitting

\* C13: in every reachable state every post of the feed and of the profile
\* page and every comment of the modal has a likesCount that, when it is a
\* number, is at least 0
C13_LikesNonNegative ==
  \A i \in 1..Len(LikeList) :
    LikeList[i].likesCount \notin {UndefNum, NaNNum} => LikeList[i].likesCount >= 0

\* every record of the list carries an id
HaveIds(records) == \A i \in 1..Len(records) : records[i].id # Undef

\* C14: every record a view stores (posts, comments, followers, following,
\* saved posts, pets, donation items, the profile object) has its id set,
\* to the backend's id or else to the backend's _id, so that no later
\* operation works with an undefined id
C14_IdsNormalized ==
  /\ HaveIds(feed.posts) /\ HaveIds(modal.comments)
  /\ HaveIds(don.donationItems) /\ HaveIds(pets.petsData)
  /\ HaveIds(prof.posts) /\ HaveIds(prof.followers)
  /\ HaveIds(prof.following) /\ HaveIds(prof.savedPosts)
  /\ prof.profileData # NoProfile => prof.profileData.id # Undef
  /\ HaveIds(eprof.posts) /\ HaveIds(eprof.followers.items)
  /\ HaveIds(eprof.following.items) /\ HaveIds(eprof.savedPosts.items)
  /\ eprof.profileData # NoProfile => eprof.profileData.id # Undef

\* the four secondary requests of the profile fetch taken last all succeeded
SecondaryOk ==
  /\ last.resp.posts.ok /\ last.resp.followers.ok
  /\ last.resp.following.ok /\ last.resp.saved.ok

\* C15: a list response that is a bare array and one that is an object
\* holding the same array under its named field give the same stored
\* collection, and neither makes the fetch fail: posts of the feed,
\* comments, pets, donations, and the posts, followers, following and saved
\* posts of the profile pages
C15_BothShapes ==
  /\ \A d1, d2 \in PostsData : d1.items = d2.items => fetchPosts(d1) = fetchPosts(d2)
  /\ \A d1, d2 \in CommentsData :
        d1.items = d2.items =>
          normalizeComments(ArrayOrNamed(d1)) = normalizeComments(ArrayOrNamed(d2))
  /\ \A d1, d2 \in PetsData : d1.items = d2.items => fetchPets(d1) = fetchPets(d2)
  /\ \A d1, d2 \in DonationsData :
        d1.items = d2.items => fetchDonations(d1) = fetchDonations(d2)
  /\ (ProfileLoaded /\ SecondaryOk) =>
        /\ last.op = "fetchData:ok"
        /\ view = "ProfilePage" =>
             /\ prof.posts = withId(last.resp.posts.items)
             /\ prof.followers = withId(last.resp.followers.items)
             /\ prof.following = withId(last.resp.following.items)
        /\ view = "EnhancedProfilePage" =>
             /\ eprof.posts = last.resp.posts.items
             /\ eprof.followers.items = last.resp.followers.items
             /\ eprof.following.items = last.resp.following.items

\* what last.op reads after a mutation request failed
FailedMutations ==
  { "like:error", "save:error", "delete:error", "follow:error",
    "unfollow:error", "addComment:error", "likeComment:error",
    "createDonation:error" }

\* C16: every failed mutation (post like, save, delete, follow and unfollow,
\* comment submission, comment like) shows an error notification
C16_FailureNotified == last.op \in FailedMutations => toast # NoToast

\* what last.op reads after a handler that needs a viewer ran: a post like or
\* save, a follow toggle, a comment submission, a comment like, a donation
\* registration, an expression of interest
ViewerOps ==
  PostToggleOps \cup
  { "handleFollowToggle", "handleFollowToggle:return", "handleCommentSubmit",
    "handleCommentSubmit:return", "handleLikeToggle:return",
    "createDonation:start", "handleRegisterItem:login",
    "handleRegisterItem:fields", "handleItemInterest",
    "handleItemInterest:login", "handleItemInterest:own" }

\* the requests in flight, view by view
InFlight == <<feed.muts, modal.likes, modal.submit, prof.follow, eprof.reqs, don.creating>>

\* C17: every action that needs a viewer, invoked with no authenticated
\* user, issues no server request, sets the location to the login route
\* and shows a notification
C17_LoginRedirect ==
  [][ (user = NoUser /\ last'.op \in ViewerOps)
      => /\ InFlight' = InFlight
         /\ location' = "/auth/login"
         /\ toast' # NoToast ]_vars

\* the follow and unfollow requests EnhancedProfilePage.tsx has in flight
FollowsInFlight == { k \in 1..Len(eprof.reqs) : eprof.reqs[k].kind = "follow" }

\* C18: while a follow or unfollow request is in flight, handleFollowToggle
\* issues no second one: at most one such request is in flight at any time,
\* on either profile page
C18_OneFollowInFlight ==
  /\ Len(prof.follow) <= 1
  /\ Len(prof.follow) = 1 <=> prof.isFollowPending
  /\ Cardinality(FollowsInFlight) <= 1

\* what last.op reads after the step that issued a like request
LikeStarted == {"like:start1", "like:start2"}

\* C19: the step that issues the request of a like, save, delete or follow
\* toggle has applied the toggle to the local state: the flag is flipped
\* (the post is gone, the follow state is changed) while the request is in
\* flight
C19_AppliedBeforeRequest ==
  [][ /\ (view = "PetFeed" /\ last'.op \in LikeStarted) =>
            \A i \in 1..Len(feed.posts) :
               feed.posts[i].id = last'.id =>
                 feed'.posts[i].isLiked = ~feed.posts[i].isLiked
      /\ (view = "PetFeed" /\ last'.op = "handleToggleSave") =>
            \A i \in 1..Len(feed.posts) :
               feed.posts[i].id = last'.id =>
                 feed'.posts[i].isSaved = ~feed.posts[i].isSaved
      /\ (view = "PetFeed" /\ last'.op = "confirmDelete") =>
            \A i \in 1..Len(feed'.posts) : feed'.posts[i].id # last'.id
      /\ (view = "CommentsModal" /\ last'.op \in LikeStarted) =>
            \A i \in 1..Len(modal.comments) :
               modal.comments[i].id = last'.id =>
                 modal'.comments[i].isLiked = ~modal.comments[i].isLiked
      /\ (view = "EnhancedProfilePage" /\ last'.op \in LikeStarted) =>
            \A i \in 1..Len(eprof.posts) :
               eprof.posts[i].id = last'.id =>
                 Truthy(eprof'.posts[i].isLiked) = ~Truthy(eprof.posts[i].isLiked)
      /\ (view = "EnhancedProfilePage" /\ last'.op = "toggleSave") =>
            \A i \in 1..Len(eprof.posts) :
               eprof.posts[i].id = last'.id =>
                 Truthy(eprof'.posts[i].isSaved) = ~Truthy(eprof.posts[i].isSaved)
      /\ (view = "ProfilePage" /\ last'.op = "handleFollowToggle") =>
            prof'.isFollowing = ~prof.isFollowing
      /\ (view = "EnhancedProfilePage" /\ last'.op = "handleFollowToggle") =>
            eprof'.isFollowing = ~eprof.isFollowing ]_vars

\* what last.op reads after a step that received comments from the server
CommentsReceived == {"fetchComments:ok", "addComment:ok"}

\* C20: the comments list and commentsCount change only when a fetch or
\* addComment has returned successfully, never when the comment is
\* submitted or while its request is in flight; every comment listed was
\* listed before, came with a fetch, or carries the id of the create response
C20_ServerConfirmed ==
  [][ view = "CommentsModal" =>
        /\ \A i \in 1..Len(modal'.comments) :
              \/ \E j \in 1..Len(modal.comments) :
                    modal.comments[j].id = modal'.comments[i].id
              \/ last'.op = "fetchComments:ok"
              \/ last'.op = "addComment:ok" /\ modal'.comments[i].id = last'.id
        /\ Len(modal'.comments) # Len(modal.comments) => last'.op \in CommentsReceived
        /\ modal'.commentsCount # modal.commentsCount => last'.op \in CommentsReceived
        /\ last'.op = "addComment:ok" => modal.submit # <<>> ]_vars

\* a comment was submitted under listed comments and its request is in flight
C20_SubmittedInFlight ==
  /\ view = "CommentsModal" /\ last.op = "handleCommentSubmit"
  /\ modal.submit # <<>> /\ modal.isSubmitting
  /\ modal.comments # <<>> /\ modal.commentsCount = Len(modal.comments)

\* what last.op reads after a fetch settled that was started for an earlier
\* key (postId, pet id, route id of the profile)
SupersededFetches ==
  {"fetchComments:ignored", "fetchPetDetails:cancelled", "fetchData:superseded"}

\* the profile page apart from its bookkeeping of the runs in flight
Shown(p) == [p EXCEPT !.stale = <<>>, !.fetching = FALSE, !.loading = FALSE]

\* C21: a fetch result that arrives after the key it was started for has
\* changed is discarded: its step leaves the comments and their count, the
\* pet, and the profile with its lists, counts and follow state as they were
C21_StaleDiscarded ==
  [][ last'.op \in SupersededFetches =>
        /\ modal'.comments = modal.comments
        /\ modal'.commentsCount = modal.commentsCount
        /\ details'.pet = details.pet /\ details'.isLoading = details.isLoading
        /\ Shown(prof') = Shown(prof) ]_vars

\* the optimistic state of the feed mutation m shows in the posts
Applied(m, posts) ==
  \A i \in 1..Len(posts) :
     posts[i].id = m.postId =>
        CASE m.kind = "like" -> posts[i].isLiked = ~m.arg
          [] m.kind = "save" -> posts[i].isSaved = ~m.arg
          [] OTHER -> FALSE

\* C22: the failure and rollback of one feed mutation does not revert the
\* optimistic state another mutation in flight has applied: what showed
\* before the error handler ran still shows after it
C22_RollbackIsolated ==
  [][ (view = "PetFeed" /\ last'.op \in {"like:error", "save:error", "delete:error"}) =>
        \A k \in 1..Len(feed'.muts) :
           Applied(feed'.muts[k], feed.posts) => Applied(feed'.muts[k], feed'.posts) ]_vars

\* the entries of a followers list that are the viewer
ViewerEntries(followers) ==
  { i \in 1..Len(followers) : user # NoUser /\ Or(followers[i].id, followers[i]._id) = user }

\* C23: after any sequence of follow and unfollow toggles and their
\* outcomes, the followers list of the profile page holds the viewer at most
\* once
C23_NoDuplicateFollower ==
  /\ Cardinality(ViewerEntries(prof.followers)) <= 1
  /\ Cardinality(ViewerEntries(eprof.followers.items)) <= 1

\* the statuses of the details page
ShownStatuses == {"Available", "Lost", "Found"}
\* what last.op reads after handleMainAction ran
MainActions == {"handleMainAction:alert", "handleMainAction:chat", "handleMainAction:map"}

\* C24: every pet of the details page has one of the statuses Available,
\* Lost and Found, lost and found mapping to Lost and Found and every other
\* backend status to Available; the main action of an Available pet sets the
\* location to the chat with its owner, and leaves the location alone when
\* the owner id is missing or is the viewer's; the main action of a Lost or
\* Found pet opens the map and leaves the location alone
C24_StatusAndMainAction ==
  [][ view = "PetDetailsPage" =>
        /\ \A st \in Statuses :
              normalizeStatus(st) = CASE st = "lost" -> "Lost"
                                      [] st = "found" -> "Found"
                                      [] OTHER -> "Available"
        /\ details'.pet # NoPet => details'.pet.status \in ShownStatuses
        /\ last'.op \in MainActions =>
              LET pet == details.pet IN
                IF pet.status = "Available"
                THEN /\ details' = details
                     /\ location' = IF pet.ownerId = Undef \/ pet.ownerId = user
                                    THEN location ELSE "/chat/" \o pet.ownerId
                ELSE /\ pet.status \in {"Lost", "Found"}
                     /\ details'.window = "maps"
                     /\ location' = location ]_vars

\* the main action of an Available pet of another owner has opened the chat
C24_ChatWithOwner ==
  /\ view = "PetDetailsPage" /\ last.op = "handleMainAction:chat"
  /\ details.pet.status = "Available" /\ details.pet.ownerId = Other
  /\ location = "/chat/u2"

\* C25: after the fetchData run for the route id of the page has failed and
\* loading has ended, the page of part_002 holds no profile, posts or
\* followers: it shows 'User not found', not the data of a user viewed before
C25_NoProfileAfterFailure ==
  ( /\ view = "ProfilePage" /\ last.op = "fetchData:catch"
    /\ ~prof.loading /\ prof.stale = <<>> )
  => /\ prof.profileData = NoProfile
     /\ prof.posts = <<>> /\ prof.followers = <<>>

\* C26: when a successful submission reports the count to the parent through
\* onCommentsCountChange, the count reported is the modal's commentsCount,
\* also when a fetch completed while the submission was in flight
C26_ReportedIsCount ==
  (view = "CommentsModal" /\ last.op = "addComment:ok") =>
     modal.reported = modal.commentsCount

\* C27: while the comments fetch started last is in flight isLoadingComments
\* is true, whatever earlier fetches settle meanwhile, and it is false once
\* that fetch has settled
C27_LoadingWhileFetching ==
  view = "CommentsModal" => (modal.isLoadingComments <=> modal.fetches > 0)

\* the entries of savedPosts for the post id
SavedEntries(id) ==
  { j \in 1..Len(eprof.savedPosts.items) : eprof.savedPosts.items[j].id = id }

\* C28: on the profile page savedPosts holds no post id twice, and after a
\* toggleSave has succeeded the post is in savedPosts exactly when its
\* isSaved flag is true
C28_SavedConsistent ==
  view = "EnhancedProfilePage" =>
    /\ \A j \in 1..Len(eprof.savedPosts.items) :
          Cardinality(SavedEntries(eprof.savedPosts.items[j].id)) = 1
    /\ last.op = "save:ok" =>
          \A i \in 1..Len(eprof.posts) :
             eprof.posts[i].id = last.id =>
                (Truthy(eprof.posts[i].isSaved) <=> SavedEntries(last.id) # {})

\* C29: on both payment endpoints a request whose amount is missing, zero,
\* not a number or below 100 is answered with 400 'Invalid amount' and calls
\* the payment provider not at all; a request with a valid amount calls the
\* provider once and sends one response: the client secret or the session
\* URL when the provider succeeds, status 500 when it fails
C29_PaymentValidation ==
  (view = "paymentRoutes" /\ pay.req.phase # "idle") =>
    LET r == pay.req
        a == r.amount
        invalid == \/ a.type # "number"
                   \/ a.value = NaNNum
                   \/ a.value < 100
    IN IF invalid
       THEN /\ r.calls = 0 /\ r.phase = "done"
            /\ r.responses = <<Response(400, "error", "Invalid amount")>>
       ELSE /\ r.calls = 1
            /\ r.phase = "await" => r.responses = <<>>
            /\ r.phase = "done" =>
                 /\ Len(r.responses) = 1
                 /\ last.op = r.endpoint \o ":ok" =>
                      /\ r.responses[1].status = 200
                      /\ r.responses[1].key =
                           (IF r.endpoint = "create-payment-intent"
                            THEN "clientSecret" ELSE "url")
                 /\ last.op = r.endpoint \o ":error" => r.responses[1].status = 500
                 /\ last.op \in {r.endpoint \o ":ok", r.endpoint \o ":error"}

\* a checkout session was created for the amount 100
C29_SessionCreated ==
  /\ view = "paymentRoutes" /\ last.op = "create-checkout-session:ok"
  /\ pay.req.amount = Amount("number", 100)
  /\ pay.req.responses = <<Response(200, "url", "value")>>

\* C30: for each OAuth strategy, after any interleaving of two callbacks no
\* two users share an email; a callback that found no user by provider id
\* but one by email links the provider id to that user and creates no user;
\* and every callback that reaches done(null, user) passes on a user with a
\* token whose provider id is the profile's id.
UniqueEmails(users) ==
  \A i, j \in 1..Len(users) : users[i].email = users[j].email => i = j
C30_OAuthCallbacks ==
  [][ /\ UniqueEmails(oauth'.users)
      /\ \A c \in Callbacks :
           LET call == oauth.calls[c] IN
           /\ last' = Did("findByEmail", c)
                /\ findOneByEmail(oauth.users, call.profile.email) # 0
                => oauth'.calls[c].pc = "save"
           /\ last' = Did("save", c)
                => /\ Len(oauth'.users) = Len(oauth.users)
                   /\ oauth'.users[call.found].email = call.profile.email
                   /\ oauth'.users[call.found].ids[call.profile.strategy]
                        = call.profile.id
           /\ oauth'.calls[c].pc = "done"
                => /\ oauth'.calls[c].passed.doc.ids[call.profile.strategy]
                        = oauth'.calls[c].profile.id
                   /\ oauth'.calls[c].passed.token = oauth'.calls[c].found
                   /\ oauth'.calls[c].passed.token \in 1..Len(oauth'.users)
    ]_vars
\* two callbacks for the same unknown profile both reached create: one
\* created the user, the other was rejected; or one callback linked
C30_ConcurrentSameProfile ==
  /\ view = "passport"
  /\ oauth.calls["first"].profile = oauth.calls["second"].profile
  /\ oauth.calls["first"].pc = "done" /\ oauth.calls["second"].pc = "error"
  /\ Len(oauth.users) = 1
  /\ last = Did("create:error", "second")
C30_Linked ==
  /\ view = "passport"
  /\ \E c \in Callbacks :
       /\ last = Did("save", c)
       /\ oauth.calls[c].pc = "done"
       /\ oauth.users[oauth.calls[c].found].provider = oauth.calls[c].profile.strategy

====
